---- MODULE Spec2Model ----
(***************************************************************************)
(* StratIQ assistant-coach backend: the deviation engine                   *)
(* (app/analysis/deviations.py), the baseline/recent splitter              *)
(* (app/features/extraction.py), the recommendation generator              *)
(* (app/insights/recommendations.py), the macro review                     *)
(* (app/macro/review.py) and the request handlers over the shared          *)
(* in-memory datasets (app/main.py).                                       *)
(*                                                                         *)
(* Numbers.  Python floats are modelled as exact rationals [n, d] in       *)
(* lowest terms with d > 0.  Python's None is the record [n |-> 0,         *)
(* d |-> 0], which is no rational.  Dictionaries are functions whose       *)
(* DOMAIN is the set of keys present.                                      *)
(***************************************************************************)
EXTENDS Integers, Sequences, FiniteSets, TLC

VARIABLES
    op,           \* the operation the inputs were drawn for
    df,           \* the dataset handed to baseline_vs_recent (sequence of rows)
    player_id,    \* argument of baseline_vs_recent / generate_recommendations
    recent_n,     \* argument recent_n_matches of baseline_vs_recent
    match_ids,    \* local match_ids of baseline_vs_recent (extraction.py:55)
    comparison,   \* the dictionary baseline_vs_recent returns
    deviations,   \* the list detect_deviations returns
    phase_devs,   \* the list phase_deviations returns
    recs,         \* the list generate_recommendations returns
    pct_b,        \* argument baseline of pct_change
    pct_r,        \* argument recent of pct_change
    pct_out,      \* the value pct_change returns
    done          \* FALSE while op is still to run on the inputs drawn, then TRUE

VARIABLES
    series,       \* argument rolling_values of detect_trend
    trend,        \* the label detect_trend returns
    match_id,     \* argument match_id of generate_macro_review / of a request
    game,         \* argument game of generate_macro_review / of a request
    columns,      \* the optional columns the dataset df has
    review,       \* the dictionary generate_macro_review returns
    dfs,          \* the module-level dictionary _dfs of main.py
    snapshot,     \* the dataset the last read request got from get_df
    ingested,     \* the ingest requests answered with success, in order
    status,       \* HTTP status of the last request answered
    handler,      \* the handler that answered the last request
    core_calls,   \* the core functions the last request invoked
    heap,         \* the objects (frames, dictionaries, lists) allocated so far
    args          \* the references a core function was called with

extVars == <<series, trend, match_id, game, columns, review, dfs, snapshot,
             ingested, status, handler, core_calls, heap, args>>

vars == <<done, op, df, player_id, recent_n, match_ids, comparison, deviations,
          phase_devs, recs, pct_b, pct_r, pct_out, extVars>>

----------------------------------------------------------------------------
(* Exact arithmetic standing for Python float arithmetic.                  *)

AbsInt(x) == IF x < 0 THEN -x ELSE x

RECURSIVE GCD(_, _)
GCD(a, b) == IF b = 0 THEN a ELSE GCD(b, a % b)

\* The rational n/d (d # 0) in lowest terms with a positive denominator.
Rat(n, d) ==
    LET g == GCD(AbsInt(n), AbsInt(d))
        s == IF d < 0 THEN -1 ELSE 1
    IN  [n |-> (s * n) \div g, d |-> (s * d) \div g]

FromInt(k) == [n |-> k, d |-> 1]
Zero == FromInt(0)

None == [n |-> 0, d |-> 0]
IsNone(x) == x.d = 0

\* Sums, quotients and comparisons cancel common factors before they
\* multiply, to keep the intermediate integers small.
RatAdd(a, b) ==
    LET g == GCD(a.d, b.d)
    IN  Rat(a.n * (b.d \div g) + b.n * (a.d \div g), (a.d \div g) * b.d)
RatNeg(a) == [n |-> -a.n, d |-> a.d]
RatSub(a, b) == RatAdd(a, RatNeg(b))
RatMul(a, b) ==
    LET g1 == GCD(AbsInt(a.n), b.d)
        g2 == GCD(AbsInt(b.n), a.d)
    IN  Rat((a.n \div g1) * (b.n \div g2), (a.d \div g2) * (b.d \div g1))
RatDiv(a, b) == RatMul(a, Rat(b.d, b.n))
RatAbs(a) == [n |-> AbsInt(a.n), d |-> a.d]
RatLT(a, b) ==
    LET g == GCD(a.d, b.d)
    IN  a.n * (b.d \div g) < b.n * (a.d \div g)
RatLE(a, b) == ~RatLT(b, a)
RatGE(a, b) == RatLE(b, a)

\* Long division: <<q, rem>> with n * 10^k = q * d + rem and 0 <= rem < d.
RECURSIVE LongDiv(_, _, _)
LongDiv(n, d, k) ==
    IF k = 0 THEN <<n \div d, n % d>>
    ELSE LET p == LongDiv(n, d, k - 1)
         IN  <<p[1] * 10 + ((p[2] * 10) \div d), (p[2] * 10) % d>>

\* The integer nearest to n * 10^k / d (d > 0), ties to the even one, as
\* Python's round() and format() choose it.
RoundHalfEven(n, d, k) ==
    LET p == LongDiv(n, d, k)
        fl == p[1]
        rem == p[2]
    IN  IF 2 * rem < d THEN fl
        ELSE IF 2 * rem > d THEN fl + 1
        ELSE IF fl % 2 = 0 THEN fl ELSE fl + 1

\* round(x, 4)
Round4(x) == Rat(RoundHalfEven(x.n, x.d, 4), 10000)

\* dict.get(key): the value, or None when the key is absent.
Get(dict, key) == IF key \in DOMAIN dict THEN dict[key] ELSE None

EmptyDict == [k \in {} |-> None]

----------------------------------------------------------------------------
(* app/analysis/deviations.py                                              *)

DROP_PCT == Rat(15, 100)
RISE_PCT == Rat(15, 100)
MIN_BASELINE == Rat(1, 100)

\* A faulty variant of pct_change: the near-zero guard compares with <= instead of <.
pct_change_guard_le(baseline, recent) ==
    IF IsNone(baseline) \/ IsNone(recent) THEN None
    ELSE IF RatLE(RatAbs(baseline), MIN_BASELINE) THEN None
    ELSE RatDiv(RatSub(recent, baseline), baseline)

pct_change(baseline, recent) ==
    IF IsNone(baseline) \/ IsNone(recent) THEN None
    ELSE IF RatLT(RatAbs(baseline), MIN_BASELINE) THEN None
    ELSE RatDiv(RatSub(recent, baseline), baseline)

\* baseline_vs_recent.get(key) or {}
GetOrEmpty(dict, key) == IF key \in DOMAIN dict THEN dict[key] ELSE EmptyDict

\* A faulty variant of METRICS: the seventh numeric column is tracked as well.
METRICS_with_rounds_played ==
    <<"kills", "deaths", "assists", "damage_dealt", "kast", "rounds_won",
      "rounds_played">>

METRICS == <<"kills", "deaths", "assists", "damage_dealt", "kast", "rounds_won">>

\* b if b is not None else 0.0
OrZero(v) == IF IsNone(v) THEN Zero ELSE v

\* A faulty variant of MetricPct: the metric is skipped as soon as one side
\* is missing.
MetricPct_skip_either(b, r) ==
    IF IsNone(b) \/ IsNone(r) THEN None
    ELSE pct_change(OrZero(b), OrZero(r))

\* Lines 38-44 of detect_deviations (77-83 of phase_deviations): the percent
\* change the detector computes for one metric, None when the metric is skipped.
MetricPct(b, r) ==
    IF IsNone(b) /\ IsNone(r) THEN None
    ELSE pct_change(OrZero(b), OrZero(r))

\* A faulty variant of higher_is_better: deaths is treated like every other metric.
higher_is_better_always(m) == TRUE

higher_is_better(m) == m # "deaths"

\* A faulty variant of significant_drop: the threshold is exclusive.
significant_drop_strict(m, pct) ==
    IF higher_is_better(m) THEN RatLT(pct, RatNeg(DROP_PCT))
    ELSE RatLT(RISE_PCT, pct)

significant_drop(m, pct) ==
    IF higher_is_better(m) THEN RatLE(pct, RatNeg(DROP_PCT))
    ELSE RatGE(pct, RISE_PCT)

significant_rise(m, pct) ==
    IF higher_is_better(m) THEN RatGE(pct, RISE_PCT)
    ELSE RatLE(pct, RatNeg(DROP_PCT))

\* One iteration of the loop of detect_deviations: the entries appended for m.
DeviationFor(baseline, recent, m) ==
    LET b == Get(baseline, m)
        r == Get(recent, m)
        pct == MetricPct(b, r)
    IN  IF IsNone(pct) THEN <<>>
        ELSE IF significant_drop(m, pct) \/ significant_rise(m, pct)
        THEN << [metric |-> m,
                 baseline |-> Round4(OrZero(b)),
                 recent |-> Round4(OrZero(r)),
                 pct_change |-> Round4(pct),
                 direction |-> IF significant_drop(m, pct) THEN "drop" ELSE "rise"] >>
        ELSE <<>>

RECURSIVE DetectLoop(_, _, _)
DetectLoop(baseline, recent, i) ==
    IF i > Len(METRICS) THEN <<>>
    ELSE DeviationFor(baseline, recent, METRICS[i]) \o DetectLoop(baseline, recent, i + 1)

detect_deviations(cmp) ==
    DetectLoop(GetOrEmpty(cmp, "baseline"), GetOrEmpty(cmp, "recent"), 1)

PHASES == <<"early", "mid", "late">>
PHASE_METRICS == <<"damage_dealt", "kast", "kills", "deaths">>

\* A faulty variant of PhaseDeviationFor: positive swings are reported too, as the
\* overall detector does.
PhaseDeviationFor_both_ways(b, r, phase, m) ==
    LET bv == Get(b, m)
        rv == Get(r, m)
        pct == MetricPct(bv, rv)
    IN  IF IsNone(pct) THEN <<>>
        ELSE IF significant_drop(m, pct) \/ significant_rise(m, pct)
        THEN << [phase |-> phase, metric |-> m,
                 baseline |-> Round4(OrZero(bv)),
                 recent |-> Round4(OrZero(rv)),
                 pct_change |-> Round4(pct),
                 direction |-> IF RatLT(pct, Zero) THEN "drop" ELSE "rise"] >>
        ELSE <<>>

\* One iteration of the inner loop of phase_deviations.
PhaseDeviationFor(b, r, phase, m) ==
    LET bv == Get(b, m)
        rv == Get(r, m)
        pct == MetricPct(bv, rv)
    IN  IF IsNone(pct) THEN <<>>
        ELSE IF higher_is_better(m) /\ RatLE(pct, RatNeg(DROP_PCT))
        THEN << [phase |-> phase, metric |-> m,
                 baseline |-> Round4(OrZero(bv)),
                 recent |-> Round4(OrZero(rv)),
                 pct_change |-> Round4(pct),
                 direction |-> "drop"] >>
        ELSE IF ~higher_is_better(m) /\ RatGE(pct, RISE_PCT)
        THEN << [phase |-> phase, metric |-> m,
                 baseline |-> Round4(OrZero(bv)),
                 recent |-> Round4(OrZero(rv)),
                 pct_change |-> Round4(pct),
                 direction |-> "rise"] >>
        ELSE <<>>

RECURSIVE PhaseMetricLoop(_, _, _, _)
PhaseMetricLoop(b, r, phase, j) ==
    IF j > Len(PHASE_METRICS) THEN <<>>
    ELSE PhaseDeviationFor(b, r, phase, PHASE_METRICS[j])
         \o PhaseMetricLoop(b, r, phase, j + 1)

RECURSIVE PhaseLoop(_, _, _)
PhaseLoop(base_phase, recent_phase, i) ==
    IF i > Len(PHASES) THEN <<>>
    ELSE PhaseMetricLoop(GetOrEmpty(base_phase, PHASES[i]),
                         GetOrEmpty(recent_phase, PHASES[i]), PHASES[i], 1)
         \o PhaseLoop(base_phase, recent_phase, i + 1)

phase_deviations(cmp) ==
    PhaseLoop(GetOrEmpty(cmp, "baseline_by_phase"),
              GetOrEmpty(cmp, "recent_by_phase"), 1)

\* arr.mean() of a non-empty list.
RECURSIVE SumSeq(_, _)
SumSeq(vals, i) ==
    IF i > Len(vals) THEN Zero ELSE RatAdd(vals[i], SumSeq(vals, i + 1))
MeanSeq(vals) == RatDiv(SumSeq(vals, 1), FromInt(Len(vals)))

\* A faulty variant of detect_trend: the extra element of an odd-length
\* series goes to the first half.
detect_trend_split_ceil(rolling_values) ==
    IF Len(rolling_values) < 2 THEN "None"
    ELSE LET n == Len(rolling_values)
             first_half == MeanSeq(SubSeq(rolling_values, 1, (n + 1) \div 2))
             second_half == MeanSeq(SubSeq(rolling_values, (n + 1) \div 2 + 1, n))
         IN  IF RatLT(RatAbs(RatSub(second_half, first_half)),
                      RatMul(MIN_BASELINE, RatAdd(RatAbs(first_half), FromInt(1))))
             THEN "stable"
             ELSE IF RatLT(second_half, first_half) THEN "declining" ELSE "improving"

\* detect_trend; the string "None" stands for the return value None.
detect_trend(rolling_values) ==
    IF Len(rolling_values) < 2 THEN "None"
    ELSE LET n == Len(rolling_values)
             first_half == MeanSeq(SubSeq(rolling_values, 1, n \div 2))
             second_half == MeanSeq(SubSeq(rolling_values, n \div 2 + 1, n))
         IN  IF RatLT(RatAbs(RatSub(second_half, first_half)),
                      RatMul(MIN_BASELINE, RatAdd(RatAbs(first_half), FromInt(1))))
             THEN "stable"
             ELSE IF RatLT(second_half, first_half) THEN "declining" ELSE "improving"

----------------------------------------------------------------------------
(* app/features/extraction.py                                              *)
(* A row of the dataset is a record with the columns player_id, match_id,  *)
(* game_phase and the seven numeric columns.                               *)

NUMERIC_COLS ==
    <<"kills", "deaths", "assists", "damage_dealt", "kast", "rounds_won",
      "rounds_played">>

Range(s) == {s[i] : i \in DOMAIN s}

SeqsUpTo(S, n) == UNION {[1..k -> S] : k \in 0..n}

MATCH_ORDER == <<"m1", "m2", "m3", "m4", "m5">>

\* A faulty variant of match_index: an id the table does not list is the latest.
match_index_unknown_last(mid) ==
    IF \E i \in DOMAIN MATCH_ORDER : MATCH_ORDER[i] = mid
    THEN (CHOOSE i \in DOMAIN MATCH_ORDER : MATCH_ORDER[i] = mid) - 1
    ELSE Len(MATCH_ORDER)

\* MATCH_ORDER.index(mid), 0 on ValueError.
match_index(mid) ==
    IF \E i \in DOMAIN MATCH_ORDER : MATCH_ORDER[i] = mid
    THEN (CHOOSE i \in DOMAIN MATCH_ORDER : MATCH_ORDER[i] = mid) - 1
    ELSE 0

\* df[df["player_id"] == player_id]
PlayerRows(rows, pid) == SelectSeq(rows, LAMBDA row : row.player_id = pid)

\* player["match_id"].unique(), as a set
DistinctIds(rows) == {rows[i].match_id : i \in DOMAIN rows}

\* The lists sorted(ids, key=_match_index) can be: ids in nondecreasing index
\* order.  Ids of equal index keep the order in which sort_values (quicksort,
\* not stable) left their rows, so any order among them is possible.
SortedOrders(ids) ==
    {s \in [1..Cardinality(ids) -> ids] :
        /\ \A i, j \in DOMAIN s : s[i] = s[j] => i = j
        /\ \A i, j \in DOMAIN s : i < j => match_index(s[i]) <= match_index(s[j])}

\* The Python slice s[k:].
SliceFrom(s, k) ==
    LET len == Len(s)
        start == IF k < 0 THEN (IF len + k < 0 THEN 0 ELSE len + k)
                 ELSE (IF k > len THEN len ELSE k)
    IN  SubSeq(s, start + 1, len)

\* A faulty variant of RecentIds: a short history is put on the baseline side, leaving
\* the recent set empty.
RecentIds_empty_when_short(ids, n) ==
    IF Len(ids) <= n THEN {} ELSE Range(SliceFrom(ids, -n))

\* recent_ids of baseline_vs_recent, ids being the sorted list match_ids.
RecentIds(ids, n) ==
    IF Len(ids) <= n THEN Range(ids) ELSE Range(SliceFrom(ids, -n))

\* A faulty variant of BaselineIds: the baseline is every match of the player.
BaselineIds_all(ids, n) ==
    IF Len(ids) <= n THEN {} ELSE Range(ids)

BaselineIds(ids, n) ==
    IF Len(ids) <= n THEN {} ELSE Range(ids) \ RecentIds(ids, n)

\* player[player["match_id"].isin(ids)]
RowsIn(rows, ids) == SelectSeq(rows, LAMBDA row : row.match_id \in ids)

RECURSIVE ColSum(_, _, _)
ColSum(rows, col, i) ==
    IF i > Len(rows) THEN Zero ELSE RatAdd(rows[i][col], ColSum(rows, col, i + 1))

\* DataFrame[col].mean() of a non-empty frame.
Mean(rows, col) == RatDiv(ColSum(rows, col, 1), FromInt(Len(rows)))

\* A faulty variant of ZeroAgg: the aggregate of an empty baseline is filled with ones.
ZeroAgg_ones == [c \in Range(NUMERIC_COLS) |-> FromInt(1)]

\* {c: 0.0 for c in numeric_cols}
ZeroAgg == [c \in Range(NUMERIC_COLS) |-> Zero]

\* df[numeric_cols].mean().to_dict()
MeanAgg(rows) == [c \in Range(NUMERIC_COLS) |-> Mean(rows, c)]

\* df.groupby("game_phase", observed=True)[numeric_cols].mean().round(4).to_dict("index"),
\* {} for an empty frame.
ByPhase(rows) ==
    [ph \in {rows[i].game_phase : i \in DOMAIN rows} |->
        [c \in Range(NUMERIC_COLS) |->
            Round4(Mean(SelectSeq(rows, LAMBDA row : row.game_phase = ph), c))]]

\* baseline_vs_recent, ids being the value of its local match_ids.
baseline_vs_recent(rows, pid, n, ids) ==
    LET player == PlayerRows(rows, pid)
        recent_ids == RecentIds(ids, n)
        baseline_ids == BaselineIds(ids, n)
        baseline_df == RowsIn(player, baseline_ids)
        recent_df == RowsIn(player, recent_ids)
        baseline_agg == IF baseline_df # <<>> THEN MeanAgg(baseline_df) ELSE ZeroAgg
        recent_agg == IF recent_df # <<>> THEN MeanAgg(recent_df) ELSE baseline_agg
    IN  IF player = <<>> THEN EmptyDict
        ELSE [player_id |-> pid,
              baseline |-> baseline_agg,
              recent |-> recent_agg,
              baseline_by_phase |-> ByPhase(baseline_df),
              recent_by_phase |-> ByPhase(recent_df),
              baseline_matches |-> baseline_ids,
              recent_matches |-> recent_ids]

----------------------------------------------------------------------------
(* app/insights/recommendations.py                                         *)
(* An item is the template chosen and the values substituted into its      *)
(* "data" and "insight" strings.                                           *)

\* METRIC_LABELS.get(metric, metric)
MetricLabel(metric) ==
    CASE metric = "kills" -> "kills per phase"
      [] metric = "deaths" -> "deaths per phase"
      [] metric = "assists" -> "assists per phase"
      [] metric = "damage_dealt" -> "damage dealt"
      [] metric = "kast" -> "KAST (kill/assist/survive/trade)"
      [] metric = "rounds_won" -> "rounds won"
      [] OTHER -> metric

\* _pct_str: abs(round(pct * 100)), the percent sign left to the template.
PctStr(pct) == AbsInt(RoundHalfEven(pct.n, pct.d, 2))

\* The number printed by the format specs :.0f, :.1f and :.2f.
Fmt0(x) == Rat(RoundHalfEven(x.n, x.d, 0), 1)
Fmt1(x) == Rat(RoundHalfEven(x.n, x.d, 1), 10)
Fmt2(x) == Rat(RoundHalfEven(x.n, x.d, 2), 100)

Item(template, pid, label, phase, pct, b, r) ==
    [template |-> template, player_id |-> pid, label |-> label, phase |-> phase,
     pct_str |-> pct, baseline |-> b, recent |-> r]

\* A faulty variant of RecForDeviation: deaths that fell are praised with the
\* "is up" text like any other rise.
RecForDeviation_deaths_rise_praised(pid, d) ==
    IF d.direction = "drop"
    THEN IF d.metric = "deaths"
         THEN << Item("deaths increased", pid, "", "", PctStr(d.pct_change),
                      Fmt1(d.baseline), Fmt1(d.recent)) >>
         ELSE << Item("dropped", pid, MetricLabel(d.metric), "", PctStr(d.pct_change),
                      Fmt2(d.baseline), Fmt2(d.recent)) >>
    ELSE << Item("is up", pid, MetricLabel(d.metric), "", PctStr(d.pct_change),
                 Fmt2(d.baseline), Fmt2(d.recent)) >>

\* One iteration of the loop over the overall deviations.
RecForDeviation(pid, d) ==
    IF d.direction = "drop"
    THEN IF d.metric = "deaths"
         THEN << Item("deaths increased", pid, "", "", PctStr(d.pct_change),
                      Fmt1(d.baseline), Fmt1(d.recent)) >>
         ELSE << Item("dropped", pid, MetricLabel(d.metric), "", PctStr(d.pct_change),
                      Fmt2(d.baseline), Fmt2(d.recent)) >>
    ELSE IF d.metric # "deaths"
         THEN << Item("is up", pid, MetricLabel(d.metric), "", PctStr(d.pct_change),
                      Fmt2(d.baseline), Fmt2(d.recent)) >>
         ELSE <<>>

\* One iteration of the loop over the phase deviations.
RecForPhaseDeviation(pid, d) ==
    IF d.direction = "drop" /\ d.metric = "damage_dealt"
    THEN << Item("phase damage dropped", pid, "", d.phase, PctStr(d.pct_change),
                 Fmt0(d.baseline), Fmt0(d.recent)) >>
    ELSE IF d.direction = "drop" /\ d.metric = "kast"
    THEN << Item("phase KAST is down", pid, "", d.phase, PctStr(d.pct_change),
                 None, None) >>
    ELSE IF d.direction = "rise" /\ d.metric = "deaths"
    THEN << Item("phase deaths are up", pid, "", d.phase, PctStr(d.pct_change),
                 None, None) >>
    ELSE <<>>

RECURSIVE OverallRecs(_, _, _)
OverallRecs(pid, devs, i) ==
    IF i > Len(devs) THEN <<>>
    ELSE RecForDeviation(pid, devs[i]) \o OverallRecs(pid, devs, i + 1)

RECURSIVE PhaseRecs(_, _, _)
PhaseRecs(pid, pdevs, i) ==
    IF i > Len(pdevs) THEN <<>>
    ELSE RecForPhaseDeviation(pid, pdevs[i]) \o PhaseRecs(pid, pdevs, i + 1)

\* The item of the "in line with baseline / No major drop-offs" text.
Fallback(pid) == Item("in line with baseline", pid, "", "", 0, None, None)

\* A faulty variant of generate_recommendations: the phase loop runs first.
generate_recommendations_phase_first(pid, cmp, devs, pdevs) ==
    LET items == PhaseRecs(pid, pdevs, 1) \o OverallRecs(pid, devs, 1)
    IN  IF items = <<>> THEN << Fallback(pid) >> ELSE items

generate_recommendations(pid, cmp, devs, pdevs) ==
    LET items == OverallRecs(pid, devs, 1) \o PhaseRecs(pid, pdevs, 1)
    IN  IF items = <<>> THEN << Fallback(pid) >> ELSE items

----------------------------------------------------------------------------
(* app/macro/review.py                                                     *)
(* An agenda item is the title, what its "data" sentence is based on, the  *)
(* phase, map or player it names and the numbers printed in it.            *)

\* str.lower() on the game names that occur.
Lower(g) ==
    CASE g = "LOL" -> "lol"
      [] g = "LoL" -> "lol"
      [] g = "VALORANT" -> "valorant"
      [] g = "Valorant" -> "valorant"
      [] OTHER -> g

\* Every group key that occurs, in sorted order: groupby lists its groups
\* sorted by key, and the categories of game_phase (loader.py:36) are
\* sorted as well.
KEY_ORDER == <<"Ascent", "Bind", "early", "late", "mid", "p1", "p2">>

\* The keys of mdf.groupby(col) in index order, and the rows of one group.
GroupKeys(rows, col) ==
    SelectSeq(KEY_ORDER, LAMBDA k : \E i \in DOMAIN rows : rows[i][col] = k)
Group(rows, col, k) == SelectSeq(rows, LAMBDA row : row[col] = k)

\* A faulty variant of Winrate: no rounds played counts as a win rate of 0.
Winrate_zero_if_unplayed(won, played) ==
    IF played = Zero THEN Zero ELSE RatDiv(won, played)

\* lambda r: (r["rounds_won"] / r["rounds_played"]) if r["rounds_played"] else None
Winrate(won, played) ==
    IF played = Zero THEN None ELSE RatDiv(won, played)

\* Series.idxmin(): the first label, in index order, that holds the minimum
\* of the values that are not missing.
IdxMin(keys, val) ==
    LET defined == {i \in DOMAIN keys : ~IsNone(val[keys[i]])}
        minimal == {i \in defined : \A j \in defined : RatLE(val[keys[i]], val[keys[j]])}
    IN  keys[CHOOSE i \in minimal : \A j \in minimal : i <= j]

\* Series.notna().any()
AnyDefined(val) == \E k \in DOMAIN val : ~IsNone(val[k])

\* _fmt_pct: round(x * 100), the percent sign left to the template.
FmtPct(x) == RoundHalfEven(x.n, x.d, 2)

AgendaItem(title, basis, subject, pct, v1, v2) ==
    [title |-> title, basis |-> basis, subject |-> subject, pct |-> pct,
     v1 |-> v1, v2 |-> v2]

\* phase_group with its winrate column (lines 40-49).
PhaseGroup(mdf) ==
    [ph \in Range(GroupKeys(mdf, "game_phase")) |->
        LET g == Group(mdf, "game_phase", ph)
        IN  [damage_dealt |-> Mean(g, "damage_dealt"),
             kast |-> Mean(g, "kast"),
             deaths |-> Mean(g, "deaths"),
             rounds_won |-> ColSum(g, "rounds_won", 1),
             rounds_played |-> ColSum(g, "rounds_played", 1),
             winrate |-> Winrate(ColSum(g, "rounds_won", 1),
                                 ColSum(g, "rounds_played", 1))]]

\* Lines 52-71: the weakest phase by win rate if any is defined, else by KAST.
PhaseFocus(mdf) ==
    LET phase_group == PhaseGroup(mdf)
        keys == GroupKeys(mdf, "game_phase")
        winrate == [ph \in DOMAIN phase_group |-> phase_group[ph].winrate]
        kast == [ph \in DOMAIN phase_group |-> phase_group[ph].kast]
    IN  IF AnyDefined(winrate)
        THEN LET weakest_phase == IdxMin(keys, winrate)
             IN  << AgendaItem("Phase focus", "winrate", weakest_phase,
                               FmtPct(winrate[weakest_phase]), None, None) >>
        ELSE LET weakest_phase == IdxMin(keys, kast)
             IN  << AgendaItem("Phase focus", "KAST", weakest_phase,
                               FmtPct(kast[weakest_phase]), None, None) >>

\* Lines 74-88: the map with the lowest win rate, if the column exists and
\* a win rate is defined.
MapNote(mdf, cols) ==
    IF "map" \in cols
    THEN LET keys == GroupKeys(mdf, "map")
             winrate == [m \in Range(keys) |->
                            Winrate(ColSum(Group(mdf, "map", m), "rounds_won", 1),
                                    ColSum(Group(mdf, "map", m), "rounds_played", 1))]
         IN  IF AnyDefined(winrate)
             THEN LET worst_map == IdxMin(keys, winrate)
                  IN  << AgendaItem("Map note", "winrate", worst_map,
                                    FmtPct(winrate[worst_map]), None, None) >>
             ELSE <<>>
    ELSE <<>>

\* player_group (lines 91-95).
PlayerGroup(mdf) ==
    [pl \in Range(GroupKeys(mdf, "player_id")) |->
        LET g == Group(mdf, "player_id", pl)
        IN  [deaths |-> Mean(g, "deaths"), kast |-> Mean(g, "kast"),
             damage |-> Mean(g, "damage_dealt")]]

\* Lines 97-106: the player with the lowest mean KAST.
PlayerNote(mdf) ==
    LET player_group == PlayerGroup(mdf)
        kast == [pl \in DOMAIN player_group |-> player_group[pl].kast]
        worst_kast_player == IdxMin(GroupKeys(mdf, "player_id"), kast)
    IN  << AgendaItem("Isolated deaths / trades", "KAST", worst_kast_player,
                      FmtPct(kast[worst_kast_player]),
                      Fmt1(player_group[worst_kast_player].deaths), None) >>

\* A faulty variant of ObjectiveSetup: the game is not looked at.
ObjectiveSetup_any_game(mdf, g, cols) ==
    IF "gold_diff_at_phase" \in cols
    THEN LET mid == Group(mdf, "game_phase", "mid")
         IN  IF mid # <<>> /\ RatLT(Mean(mid, "gold_diff_at_phase"), Zero)
             THEN << AgendaItem("Objective setup (LoL)", "gold_diff", "mid", 0,
                                Fmt0(Mean(mid, "gold_diff_at_phase")),
                                Fmt1(Mean(mid, "objective_score"))) >>
             ELSE <<>>
    ELSE <<>>

\* Lines 109-124, g being the lower-cased game.  A dataset with the column
\* gold_diff_at_phase has the column objective_score as well.
ObjectiveSetup(mdf, g, cols) ==
    IF g = "lol" /\ "gold_diff_at_phase" \in cols
    THEN LET mid == Group(mdf, "game_phase", "mid")
         IN  IF mid # <<>> /\ RatLT(Mean(mid, "gold_diff_at_phase"), Zero)
             THEN << AgendaItem("Objective setup (LoL)", "gold_diff", "mid", 0,
                                Fmt0(Mean(mid, "gold_diff_at_phase")),
                                Fmt1(Mean(mid, "objective_score"))) >>
             ELSE <<>>
    ELSE <<>>

\* supporting: the two group tables as lists of records in index order.
Supporting(mdf) ==
    [phase_summary |->
        [i \in DOMAIN GroupKeys(mdf, "game_phase") |->
            [key |-> GroupKeys(mdf, "game_phase")[i],
             row |-> PhaseGroup(mdf)[GroupKeys(mdf, "game_phase")[i]]]],
     player_summary |->
        [i \in DOMAIN GroupKeys(mdf, "player_id") |->
            [key |-> GroupKeys(mdf, "player_id")[i],
             row |-> PlayerGroup(mdf)[GroupKeys(mdf, "player_id")[i]]]]]

\* A faulty variant of EmptyReview: the supporting bundle holds the two
\* (empty) summaries.
EmptyReview_with_summaries(mid, g) ==
    [match_id |-> mid, game |-> g, agenda |-> <<>>,
     supporting |-> [phase_summary |-> <<>>, player_summary |-> <<>>]]

\* Line 35: the return value for a match without rows.
EmptyReview(mid, g) ==
    [match_id |-> mid, game |-> g, agenda |-> <<>>, supporting |-> EmptyDict]

\* generate_macro_review on the rows and the optional columns of df.
generate_macro_review(rows, cols, mid, g) ==
    LET game_l == Lower(g)
        mdf == SelectSeq(rows, LAMBDA row : row.match_id = mid)
    IN  IF mdf = <<>> THEN EmptyReview(mid, game_l)
        ELSE [match_id |-> mid, game |-> game_l,
              agenda |-> PhaseFocus(mdf) \o MapNote(mdf, cols) \o PlayerNote(mdf)
                            \o ObjectiveSetup(mdf, game_l, cols),
              supporting |-> Supporting(mdf)]

----------------------------------------------------------------------------
(* Values of the variables a specification does not use.                   *)

PipelineIdle ==
    /\ df = <<>> /\ player_id = "" /\ recent_n = 0 /\ match_ids = <<>>
    /\ comparison = EmptyDict /\ deviations = <<>> /\ phase_devs = <<>>
    /\ recs = <<>> /\ pct_b = None /\ pct_r = None /\ pct_out = None
TrendIdle == series = <<>> /\ trend = "None"
MacroIdle ==
    /\ match_id = "" /\ game = "" /\ columns = {}
    /\ review = [match_id |-> "", game |-> "", agenda |-> <<>>, supporting |-> EmptyDict]
ApiIdle ==
    /\ dfs = EmptyDict /\ snapshot = <<>> /\ ingested = <<>> /\ status = 0
    /\ handler = "" /\ core_calls = {}
ExtIdle == TrendIdle /\ MacroIdle /\ ApiIdle /\ heap = <<>> /\ args = <<>>

----------------------------------------------------------------------------
(* The deviation engine on its own: inputs drawn from bounded sets, one    *)
(* action per function.                                                    *)

\* Arguments of pct_change: absent, negative, inside and on the edge of the
\* near-zero band, and ordinary values.
PctBaselines ==
    {None, FromInt(-10), Rat(-1, 100), Rat(-1, 200), Zero, Rat(1, 200),
     Rat(1, 100), FromInt(10), FromInt(100)}
PctRecents == {None, FromInt(-5), Zero, FromInt(8), FromInt(10), FromInt(12), FromInt(85)}

\* Metric values of a comparison: None stands for a key that is absent.
\* 21251/250 = 85.004 is 14.996% under 100: it rounds to -0.15 without reaching it.
MetricVals ==
    {None, Zero, Rat(1, 200), Rat(1, 100), FromInt(10), FromInt(12), FromInt(80),
     FromInt(85), Rat(21251, 250), FromInt(100), FromInt(115)}
SecondPairs ==
    {<<None, None>>, <<FromInt(10), FromInt(12)>>, <<FromInt(10), FromInt(8)>>,
     <<FromInt(10), FromInt(10)>>, <<None, FromInt(10)>>, <<FromInt(10), None>>}

SecondKey(k) == IF k = "deaths" THEN "kills" ELSE "deaths"

\* The dictionary holding v1 under k1 and v2 under k2, a None value being no key.
Dict2(k1, v1, k2, v2) ==
    [k \in {x \in {k1, k2} : ~IsNone(IF x = k1 THEN v1 ELSE v2)} |->
        IF k = k1 THEN v1 ELSE v2]

OverallComparisons ==
    {[baseline |-> Dict2(k, b, SecondKey(k), p[1]),
      recent |-> Dict2(k, r, SecondKey(k), p[2])] :
        k \in Range(NUMERIC_COLS), b \in MetricVals, r \in MetricVals, p \in SecondPairs}

\* By-phase dictionary with one phase, absent when it would hold no metric.
PhaseDict(ph, d) == [x \in {y \in {ph} : DOMAIN d # {}} |-> d]

PhaseComparisons ==
    {[baseline_by_phase |-> PhaseDict(ph, Dict2(k, b, SecondKey(k), p[1])),
      recent_by_phase |-> PhaseDict(ph, Dict2(k, r, SecondKey(k), p[2]))] :
        ph \in Range(PHASES), k \in Range(NUMERIC_COLS),
        b \in MetricVals, r \in MetricVals, p \in SecondPairs}

InitPct ==
    /\ op = "pct_change" /\ done = FALSE
    /\ ExtIdle
    /\ df = <<>> /\ player_id = "" /\ recent_n = 0 /\ match_ids = <<>>
    /\ comparison = EmptyDict /\ deviations = <<>> /\ phase_devs = <<>>
    /\ recs = <<>> /\ pct_out = None
    /\ pct_b \in PctBaselines /\ pct_r \in PctRecents

InitDetect ==
    /\ op = "detect_deviations" /\ done = FALSE
    /\ ExtIdle
    /\ df = <<>> /\ player_id = "" /\ recent_n = 0 /\ match_ids = <<>>
    /\ deviations = <<>> /\ phase_devs = <<>>
    /\ recs = <<>> /\ pct_b = None /\ pct_r = None /\ pct_out = None
    /\ comparison \in OverallComparisons

InitPhase ==
    /\ op = "phase_deviations" /\ done = FALSE
    /\ ExtIdle
    /\ df = <<>> /\ player_id = "" /\ recent_n = 0 /\ match_ids = <<>>
    /\ deviations = <<>> /\ phase_devs = <<>>
    /\ recs = <<>> /\ pct_b = None /\ pct_r = None /\ pct_out = None
    /\ comparison \in PhaseComparisons

InitDev == InitPct \/ InitDetect \/ InitPhase

PctChange ==
    /\ op = "pct_change" /\ ~done
    /\ pct_out' = pct_change(pct_b, pct_r)
    /\ done' = TRUE
    /\ UNCHANGED <<op, df, player_id, recent_n, match_ids, comparison, deviations,
                   phase_devs, recs, pct_b, pct_r>>
    /\ UNCHANGED extVars

DetectDeviations ==
    /\ op = "detect_deviations" /\ ~done
    /\ deviations' = detect_deviations(comparison)
    /\ done' = TRUE
    /\ UNCHANGED <<op, df, player_id, recent_n, match_ids, comparison,
                   phase_devs, recs, pct_b, pct_r, pct_out>>
    /\ UNCHANGED extVars

PhaseDeviations ==
    /\ op = "phase_deviations" /\ ~done
    /\ phase_devs' = phase_deviations(comparison)
    /\ done' = TRUE
    /\ UNCHANGED <<op, df, player_id, recent_n, match_ids, comparison,
                   deviations, recs, pct_b, pct_r, pct_out>>
    /\ UNCHANGED extVars

NextDev == PctChange \/ DetectDeviations \/ PhaseDeviations

SpecDev == InitDev /\ [][NextDev]_vars

----------------------------------------------------------------------------
(* Properties of the deviation engine, checked under SpecDev.              *)

\* |x| < 0.01, |x| >= 0.15 of a rational, in integers.
NearZero(x) == -x.d < 100 * x.n /\ 100 * x.n < x.d
AtLeast15(x) == 100 * x.n >= 15 * x.d
AtMostMinus15(x) == 100 * x.n <= -15 * x.d

\* C6: pct_change(b, r) is None iff b is absent, r is absent or |b| < 0.01,
\* and in every other case it equals (r - b) / b.
C6_PctChangeUndefinedIff ==
    (op = "pct_change" /\ done) =>
        LET undefined == IsNone(pct_b) \/ IsNone(pct_r) \/ NearZero(pct_b)
        IN  /\ IsNone(pct_out) <=> undefined
            /\ ~undefined =>
                 pct_out.n * (pct_r.d * pct_b.n)
                    = pct_out.d * (pct_r.n * pct_b.d - pct_b.n * pct_r.d)

\* The baseline sits exactly on the guard (0.01) and the result is defined.
C6_Witness ==
    /\ op = "pct_change" /\ done
    /\ pct_b = Rat(1, 100) /\ pct_r = FromInt(12)
    /\ pct_out = FromInt(1199)

\* The values the overall detector works with for metric m (missing -> 0.0).
InB(m) == OrZero(Get(GetOrEmpty(comparison, "baseline"), m))
InR(m) == OrZero(Get(GetOrEmpty(comparison, "recent"), m))
BothMissing(m) ==
    /\ m \notin DOMAIN GetOrEmpty(comparison, "baseline")
    /\ m \notin DOMAIN GetOrEmpty(comparison, "recent")
\* The detector's percent change for m is defined / is r - b over b.
PctDefined(m) == ~BothMissing(m) /\ ~NearZero(InB(m))
ChangeNum(m) == InR(m).n * InB(m).d - InB(m).n * InR(m).d
ChangeDen(m) == InR(m).d * InB(m).n
\* (r - b) / b >= 0.15 and <= -0.15, for a defined percent change.
PctAtLeast15(m) ==
    IF ChangeDen(m) > 0 THEN 100 * ChangeNum(m) >= 15 * ChangeDen(m)
    ELSE 100 * ChangeNum(m) <= 15 * ChangeDen(m)
PctAtMostMinus15(m) ==
    IF ChangeDen(m) > 0 THEN 100 * ChangeNum(m) <= -15 * ChangeDen(m)
    ELSE 100 * ChangeNum(m) >= -15 * ChangeDen(m)

SixMetrics == {"kills", "deaths", "assists", "damage_dealt", "kast", "rounds_won"}

\* C7: detect_deviations returns at most one entry per metric, only for the
\* six tracked metrics, and none for a metric whose percent change (as the
\* detector computes it, a missing side counting as 0.0) is undefined.
C7_OneEntryPerTrackedMetric ==
    (op = "detect_deviations" /\ done) =>
        /\ \A i, j \in DOMAIN deviations :
              deviations[i].metric = deviations[j].metric => i = j
        /\ \A i \in DOMAIN deviations :
              /\ deviations[i].metric \in SixMetrics
              /\ deviations[i].direction \in {"drop", "rise"}
              /\ PctDefined(deviations[i].metric)

\* kills has a near-zero baseline (0.005 -> 12) and gets no entry, deaths
\* (10 -> 12) gets the only one.
C7_Witness ==
    /\ op = "detect_deviations" /\ done
    /\ Get(GetOrEmpty(comparison, "baseline"), "kills") = Rat(1, 200)
    /\ Get(GetOrEmpty(comparison, "recent"), "kills") = FromInt(12)
    /\ Len(deviations) = 1
    /\ deviations[1].metric = "deaths"

\* C8: polarity.  For an emitted deaths entry direction is "drop" exactly
\* when pct_change >= 0.15 and "rise" exactly when pct_change <= -0.15; for
\* every other metric it is the other way round.  This holds of the reported
\* (rounded) pct_change and of the exact one.  Deaths 10 -> 12 gives one
\* deaths entry with direction "drop"; damage 100 -> 80 gives damage_dealt
\* with direction "drop".
C8_Polarity ==
    (op = "detect_deviations" /\ done) =>
        /\ \A i \in DOMAIN deviations :
              LET e == deviations[i]
                  worse == e.direction = "drop"
                  better == e.direction = "rise"
              IN  IF e.metric = "deaths"
                  THEN /\ worse <=> AtLeast15(e.pct_change)
                       /\ better <=> AtMostMinus15(e.pct_change)
                       /\ worse <=> PctAtLeast15(e.metric)
                       /\ better <=> PctAtMostMinus15(e.metric)
                  ELSE /\ worse <=> AtMostMinus15(e.pct_change)
                       /\ better <=> AtLeast15(e.pct_change)
                       /\ worse <=> PctAtMostMinus15(e.metric)
                       /\ better <=> PctAtLeast15(e.metric)
        /\ (~BothMissing("deaths") /\ InB("deaths") = FromInt(10)
                /\ InR("deaths") = FromInt(12)) =>
              /\ Cardinality({i \in DOMAIN deviations :
                                deviations[i].metric = "deaths"}) = 1
              /\ \A i \in DOMAIN deviations :
                    deviations[i].metric = "deaths" =>
                        /\ deviations[i].direction = "drop"
                        /\ deviations[i].pct_change = Rat(20, 100)
        /\ (~BothMissing("damage_dealt") /\ InB("damage_dealt") = FromInt(100)
                /\ InR("damage_dealt") = FromInt(80)) =>
              \E i \in DOMAIN deviations :
                  /\ deviations[i].metric = "damage_dealt"
                  /\ deviations[i].direction = "drop"
                  /\ deviations[i].pct_change = Rat(-20, 100)

\* Deaths 10 -> 12 and damage 100 -> 80 in one comparison: two "drop" entries.
C8_Witness ==
    /\ op = "detect_deviations" /\ done
    /\ Len(deviations) = 2
    /\ deviations[1].metric = "deaths" /\ deviations[1].direction = "drop"
    /\ deviations[1].baseline = FromInt(10) /\ deviations[1].recent = FromInt(12)
    /\ deviations[2].metric = "damage_dealt" /\ deviations[2].direction = "drop"
    /\ deviations[2].baseline = FromInt(100) /\ deviations[2].recent = FromInt(80)

\* C9: a tracked metric has an entry iff its percent change is defined and
\* |pct_change| >= 0.15; a metric whose recent value equals its baseline has
\* none.
C9_EntryIffSignificant ==
    (op = "detect_deviations" /\ done) =>
        \A m \in SixMetrics :
            /\ (\E i \in DOMAIN deviations : deviations[i].metric = m)
                  <=> (PctDefined(m) /\ (PctAtLeast15(m) \/ PctAtMostMinus15(m)))
            /\ (~BothMissing(m) /\ InB(m) = InR(m)) =>
                  ~\E i \in DOMAIN deviations : deviations[i].metric = m

\* Damage 100 -> 85 is exactly 15% down and is reported.
C9_Witness ==
    /\ op = "detect_deviations" /\ done
    /\ Get(GetOrEmpty(comparison, "baseline"), "damage_dealt") = FromInt(100)
    /\ Get(GetOrEmpty(comparison, "recent"), "damage_dealt") = FromInt(85)
    /\ \E i \in DOMAIN deviations :
          /\ deviations[i].metric = "damage_dealt"
          /\ deviations[i].pct_change = Rat(-15, 100)

\* C10: every entry of phase_deviations has a phase among early, mid, late
\* and a metric among damage_dealt, kast, kills, deaths, and reports a
\* negative outcome only: a metric other than deaths with
\* pct_change <= -0.15, or deaths with pct_change >= 0.15.
C10_PhaseNegativeOnly ==
    (op = "phase_deviations" /\ done) =>
        \A i \in DOMAIN phase_devs :
            LET e == phase_devs[i]
                b == OrZero(Get(GetOrEmpty(GetOrEmpty(comparison, "baseline_by_phase"),
                                           e.phase), e.metric))
                r == OrZero(Get(GetOrEmpty(GetOrEmpty(comparison, "recent_by_phase"),
                                           e.phase), e.metric))
            IN  /\ e.phase \in {"early", "mid", "late"}
                /\ e.metric \in {"damage_dealt", "kast", "kills", "deaths"}
                /\ \/ e.metric # "deaths" /\ AtMostMinus15(e.pct_change)
                   \/ e.metric = "deaths" /\ AtLeast15(e.pct_change)
                /\ ~NearZero(b)
                /\ IF e.metric = "deaths" THEN RatLT(b, r) ELSE RatLT(r, b)

\* Mid-phase kills rose 100 -> 115 and deaths rose 10 -> 12: only the deaths
\* entry is reported.
C10_Witness ==
    /\ op = "phase_deviations" /\ done
    /\ Get(GetOrEmpty(GetOrEmpty(comparison, "baseline_by_phase"), "mid"), "kills")
          = FromInt(100)
    /\ Get(GetOrEmpty(GetOrEmpty(comparison, "recent_by_phase"), "mid"), "kills")
          = FromInt(115)
    /\ Len(phase_devs) = 1
    /\ phase_devs[1].metric = "deaths" /\ phase_devs[1].direction = "rise"
    /\ phase_devs[1].phase = "mid"

\* The entries of detect_deviations for metric m.
EntriesOf(m) == {i \in DOMAIN deviations : deviations[i].metric = m}

\* C14: a tracked metric with exactly one side missing is not skipped, the
\* missing side counts as 0.0.  With the baseline missing there is no entry;
\* with the recent value missing and |baseline| >= 0.01 there is one entry
\* with pct_change = -1 and recent = 0, direction "drop" for a metric other
\* than deaths and "rise" for deaths.  With both missing there is no entry.
C14_MissingSideIsZero ==
    (op = "detect_deviations" /\ done) =>
        \A m \in SixMetrics :
            LET hasB == m \in DOMAIN GetOrEmpty(comparison, "baseline")
                hasR == m \in DOMAIN GetOrEmpty(comparison, "recent")
            IN  /\ (~hasB /\ hasR) => EntriesOf(m) = {}
                /\ (~hasB /\ ~hasR) => EntriesOf(m) = {}
                /\ (hasB /\ ~hasR /\ ~NearZero(comparison.baseline[m])) =>
                      /\ Cardinality(EntriesOf(m)) = 1
                      /\ \A i \in EntriesOf(m) :
                            /\ deviations[i].pct_change = FromInt(-1)
                            /\ deviations[i].recent = Zero
                            /\ deviations[i].baseline = comparison.baseline[m]
                            /\ deviations[i].direction
                                  = (IF m = "deaths" THEN "rise" ELSE "drop")
                /\ (hasB /\ ~hasR /\ NearZero(comparison.baseline[m])) =>
                      EntriesOf(m) = {}

\* kills has only a baseline (10) and deaths only a recent value (10): the
\* one entry is kills, 100% down.
C14_Witness ==
    /\ op = "detect_deviations" /\ done
    /\ DOMAIN GetOrEmpty(comparison, "baseline") = {"kills"}
    /\ DOMAIN GetOrEmpty(comparison, "recent") = {"deaths"}
    /\ comparison.baseline["kills"] = FromInt(10)
    /\ Len(deviations) = 1
    /\ deviations[1].metric = "kills" /\ deviations[1].direction = "drop"
    /\ deviations[1].pct_change = FromInt(-1)

----------------------------------------------------------------------------
(* detect_trend on its own, on series drawn from a bounded set.            *)

MaxSeries == 4

\* Values of a series: negative, zero, inside and on the edge of the 1%
\* band around zero, and ordinary values.
TrendVals ==
    {FromInt(-10), Zero, Rat(1, 200), Rat(1, 100), FromInt(4), FromInt(5),
     FromInt(6), FromInt(8), FromInt(10)}

InitTrend ==
    /\ op = "detect_trend" /\ done = FALSE
    /\ PipelineIdle /\ MacroIdle /\ ApiIdle /\ heap = <<>> /\ args = <<>>
    /\ trend = "None"
    /\ series \in SeqsUpTo(TrendVals, MaxSeries)

DetectTrend ==
    /\ op = "detect_trend" /\ ~done
    /\ trend' = detect_trend(series)
    /\ done' = TRUE
    /\ UNCHANGED <<op, df, player_id, recent_n, match_ids, comparison, deviations,
                   phase_devs, recs, pct_b, pct_r, pct_out>>
    /\ UNCHANGED <<series, match_id, game, columns, review, dfs, snapshot,
                   ingested, status, handler, core_calls, heap, args>>

NextTrend == DetectTrend

SpecTrend == InitTrend /\ [][NextTrend]_vars

\* The values of the series times 200 (every value is a multiple of 1/200),
\* summed over positions from..to.
RECURSIVE ScaledSum(_, _)
ScaledSum(from, to) ==
    IF from > to THEN 0
    ELSE series[from].n * (200 \div series[from].d) + ScaledSum(from + 1, to)

\* C15: detect_trend returns None for a series of fewer than 2 values.
\* For n >= 2 values, with first the mean of the first floor(n/2) values and
\* second the mean of the others, it returns "stable" iff
\* |second - first| < 0.01 * (|first| + 1), otherwise "declining" iff
\* second < first, otherwise "improving".  In integers, with h = floor(n/2),
\* S1 and S2 the two sums times 200: second - first = (S2*h - S1*(n-h)) /
\* (200*h*(n-h)) and |first| + 1 = (|S1| + 200*h) / (200*h).
C15_TrendLabel ==
    (op = "detect_trend" /\ done) =>
        LET n == Len(series)
            h == n \div 2
            S1 == ScaledSum(1, h)
            S2 == ScaledSum(h + 1, n)
            diff == S2 * h - S1 * (n - h)
            stable == 100 * AbsInt(diff) < (n - h) * (AbsInt(S1) + 200 * h)
        IN  /\ trend \in {"None", "stable", "declining", "improving"}
            /\ trend = "None" <=> n < 2
            /\ n >= 2 =>
                  /\ trend = "stable" <=> stable
                  /\ trend = "declining" <=> (~stable /\ diff < 0)
                  /\ trend = "improving" <=> (~stable /\ diff >= 0)
            /\ series = <<FromInt(10), FromInt(10), FromInt(10), FromInt(10)>>
                  => trend = "stable"
            /\ series = <<FromInt(10), FromInt(8), FromInt(6), FromInt(4)>>
                  => trend = "declining"
            /\ series = <<FromInt(4), FromInt(6), FromInt(8), FromInt(10)>>
                  => trend = "improving"
            /\ series = <<FromInt(5)>> => trend = "None"

\* An odd-length series whose middle value decides: 10, 4, 10 is 10 against
\* 7 ("declining"), and 0, 0.01 sits exactly on the band and is not stable.
C15_Witness ==
    /\ op = "detect_trend" /\ done
    /\ \/ series = <<FromInt(10), FromInt(4), FromInt(10)>> /\ trend = "declining"
       \/ series = <<Zero, Rat(1, 100)>> /\ trend = "improving"

----------------------------------------------------------------------------
(* The recommendation generator on its own, on lists of entries such as    *)
(* the two detectors return.                                               *)

MaxDevs == 2
MaxPhaseDevs == 2

\* Entries of detect_deviations: four metrics, 10 -> 12 and 10 -> 8.
DevEntries ==
    UNION {Range(DeviationFor(Dict2(m, FromInt(10), m, None), Dict2(m, r, m, None), m)) :
             m \in {"kills", "deaths", "damage_dealt", "kast"},
             r \in {FromInt(12), FromInt(8)}}

\* Entries of phase_deviations: every phase metric in mid, damage in late.
PhaseEntries ==
    UNION {Range(PhaseDeviationFor(Dict2(x[2], FromInt(10), x[2], None),
                                   Dict2(x[2], x[3], x[2], None), x[1], x[2])) :
             x \in {<<"mid", "damage_dealt", FromInt(8)>>, <<"mid", "kast", FromInt(8)>>,
                    <<"mid", "kills", FromInt(8)>>, <<"mid", "deaths", FromInt(12)>>,
                    <<"late", "damage_dealt", FromInt(8)>>}}

InitRec ==
    /\ op = "generate_recommendations" /\ done = FALSE
    /\ ExtIdle
    /\ df = <<>> /\ recent_n = 0 /\ match_ids = <<>>
    /\ comparison = EmptyDict
    /\ recs = <<>> /\ pct_b = None /\ pct_r = None /\ pct_out = None
    /\ player_id = "p1"
    /\ deviations \in SeqsUpTo(DevEntries, MaxDevs)
    /\ phase_devs \in SeqsUpTo(PhaseEntries, MaxPhaseDevs)

GenerateRecommendations ==
    /\ op = "generate_recommendations" /\ ~done
    /\ recs' = generate_recommendations(player_id, comparison, deviations, phase_devs)
    /\ done' = TRUE
    /\ UNCHANGED <<op, df, player_id, recent_n, match_ids, comparison,
                   deviations, phase_devs, pct_b, pct_r, pct_out>>
    /\ UNCHANGED extVars

NextRec == GenerateRecommendations

SpecRec == InitRec /\ [][NextRec]_vars

\* C1: generate_recommendations returns the fallback item iff both input
\* lists are empty; then the output is exactly that one item, and with a
\* non-empty list the fallback item is not in the output.
C1_FallbackIffBothEmpty ==
    (op = "generate_recommendations" /\ done) =>
        LET bothEmpty == deviations = <<>> /\ phase_devs = <<>>
            hasFallback ==
                \E i \in DOMAIN recs : recs[i].template = "in line with baseline"
        IN  /\ hasFallback <=> bothEmpty
            /\ bothEmpty => (Len(recs) = 1 /\ hasFallback)

\* The items of the output that come from a deviation (not the fallback),
\* those about a phase and those about the player overall.
PhaseItems == SelectSeq(recs, LAMBDA it : it.phase # "")
OverallItems ==
    SelectSeq(recs, LAMBDA it : it.phase = "" /\ it.template # "in line with baseline")
PhaseTemplates == {"phase damage dropped", "phase KAST is down", "phase deaths are up"}

\* C11: every phase deviation (damage_dealt, kast, kills or deaths) gets one
\* phase-specific item naming its phase: there are as many phase items as
\* phase deviations, and the k-th phase item names the phase of the k-th
\* phase deviation.
C11_EveryPhaseDeviationHasItem ==
    (op = "generate_recommendations" /\ done) =>
        /\ Len(PhaseItems) = Len(phase_devs)
        /\ \A k \in DOMAIN phase_devs :
              k <= Len(PhaseItems) =>
                  /\ PhaseItems[k].phase = phase_devs[k].phase
                  /\ PhaseItems[k].template \in PhaseTemplates

\* The overall deviations other than "deaths fell".
IsDeathsRise(d) == d.metric = "deaths" /\ d.direction = "rise"
ItemDeviations == SelectSeq(deviations, LAMBDA d : ~IsDeathsRise(d))

\* C12: every overall deviation yields exactly one item, except deaths with
\* direction "rise", which yields none; the "is up" text goes to non-death
\* metrics with direction "rise" only, the "deaths increased" text to deaths
\* with direction "drop" only.
C12_OverallItemPerDeviation ==
    (op = "generate_recommendations" /\ done) =>
        /\ Len(OverallItems) = Len(ItemDeviations)
        /\ \A k \in DOMAIN ItemDeviations :
              k <= Len(OverallItems) =>
                  LET d == ItemDeviations[k]
                      it == OverallItems[k]
                  IN  /\ it.template = "is up"
                            <=> (d.metric # "deaths" /\ d.direction = "rise")
                      /\ it.template = "deaths increased"
                            <=> (d.metric = "deaths" /\ d.direction = "drop")
                      /\ it.template = "dropped"
                            <=> (d.metric # "deaths" /\ d.direction = "drop")

\* Deaths fell and kills rose: one item, the praise for kills.
C12_Witness ==
    /\ op = "generate_recommendations" /\ done
    /\ Len(deviations) = 2
    /\ IsDeathsRise(deviations[1])
    /\ deviations[2].metric = "kills" /\ deviations[2].direction = "rise"
    /\ phase_devs = <<>>
    /\ Len(recs) = 1 /\ recs[1].template = "is up"
    /\ recs[1].label = "kills per phase"

\* Item it was derived from the overall deviation d / the phase deviation d.
FromDeviation(it, d) ==
    /\ it.phase = ""
    /\ it.pct_str = PctStr(d.pct_change)
    /\ IF d.metric = "deaths" THEN it.template = "deaths increased"
       ELSE /\ it.label = MetricLabel(d.metric)
            /\ it.template = (IF d.direction = "drop" THEN "dropped" ELSE "is up")
FromPhaseDeviation(it, d) ==
    /\ it.phase = d.phase
    /\ it.template = (CASE d.metric = "damage_dealt" -> "phase damage dropped"
                        [] d.metric = "kast" -> "phase KAST is down"
                        [] d.metric = "deaths" -> "phase deaths are up"
                        [] OTHER -> "")
ItemPhaseDeviations == SelectSeq(phase_devs, LAMBDA d : d.metric # "kills")

\* C13: the output keeps the input order: no phase item precedes an overall
\* item, the overall items follow the order of the deviations list and the
\* phase items the order of the phase-deviations list.
C13_InputOrderPreserved ==
    (op = "generate_recommendations" /\ done) =>
        /\ \A i, j \in DOMAIN recs :
              (recs[i].phase # "" /\ recs[j].phase = "") => j < i
        /\ Len(OverallItems) = Len(ItemDeviations)
        /\ \A k \in DOMAIN ItemDeviations :
              k <= Len(OverallItems) => FromDeviation(OverallItems[k], ItemDeviations[k])
        /\ Len(PhaseItems) = Len(ItemPhaseDeviations)
        /\ \A k \in DOMAIN ItemPhaseDeviations :
              k <= Len(PhaseItems) =>
                  FromPhaseDeviation(PhaseItems[k], ItemPhaseDeviations[k])
        /\ (Len(OverallItems) + Len(PhaseItems) > 0) =>
              recs = OverallItems \o PhaseItems

\* Two overall deviations and two phase deviations, four items in input order.
C13_Witness ==
    /\ op = "generate_recommendations" /\ done
    /\ Len(deviations) = 2 /\ Len(phase_devs) = 2
    /\ deviations[1].metric = "kast" /\ deviations[2].metric = "deaths"
    /\ deviations[2].direction = "drop"
    /\ phase_devs[1].phase = "late" /\ phase_devs[2].metric = "deaths"
    /\ Len(recs) = 4
    /\ recs[1].label = "KAST (kill/assist/survive/trade)"
    /\ recs[2].template = "deaths increased"
    /\ recs[3].phase = "late" /\ recs[4].template = "phase deaths are up"

----------------------------------------------------------------------------
(* The pipeline baseline_vs_recent -> detect_deviations ->                 *)
(* phase_deviations -> generate_recommendations, as get_recommendations    *)
(* chains it (main.py:136-139), with recent_n_matches left free.           *)

MaxRows == 3
MaxRecentN == 2

High ==
    [kills |-> FromInt(4), deaths |-> FromInt(2), assists |-> FromInt(3),
     damage_dealt |-> FromInt(100), kast |-> Rat(3, 4),
     rounds_won |-> FromInt(3), rounds_played |-> FromInt(4)]
Low ==
    [kills |-> FromInt(2), deaths |-> FromInt(3), assists |-> FromInt(3),
     damage_dealt |-> FromInt(80), kast |-> Rat(1, 2),
     rounds_won |-> FromInt(1), rounds_played |-> FromInt(4)]

Row(pid, mid, ph, stats) ==
    [player_id |-> pid, match_id |-> mid, game_phase |-> ph,
     kills |-> stats.kills, deaths |-> stats.deaths, assists |-> stats.assists,
     damage_dealt |-> stats.damage_dealt, kast |-> stats.kast,
     rounds_won |-> stats.rounds_won, rounds_played |-> stats.rounds_played]

\* The rows a dataset is made of: player p1 in the matches m1, m2 and grid-1
\* (an id MATCH_ORDER does not list, so of index 0 like m1), in the phases
\* early and mid, and one row of p2.
MatchIds == <<"m1", "grid-1", "m2">>
RowPhases == <<"early", "mid">>
Profiles == <<High, Low>>
RowTypes ==
    [i \in 1..(Len(MatchIds) * Len(RowPhases) * Len(Profiles) + 1) |->
        IF i = Len(MatchIds) * Len(RowPhases) * Len(Profiles) + 1
        THEN Row("p2", "m1", "early", High)
        ELSE Row("p1",
                 MatchIds[((i - 1) \div (Len(RowPhases) * Len(Profiles))) + 1],
                 RowPhases[(((i - 1) \div Len(Profiles)) % Len(RowPhases)) + 1],
                 Profiles[((i - 1) % Len(Profiles)) + 1])]

\* Datasets of up to MaxRows rows.  The rows are listed in the order of
\* RowTypes: every aggregate is a mean over a set of rows and the order among
\* match ids of equal index is chosen by the action, so the row order has no
\* other effect.
Datasets ==
    {[i \in DOMAIN f |-> RowTypes[f[i]]] :
        f \in {g \in SeqsUpTo(DOMAIN RowTypes, MaxRows) :
                  \A i, j \in DOMAIN g : i < j => g[i] <= g[j]}}

Init ==
    /\ op = "recommendations" /\ done = FALSE
    /\ ExtIdle
    /\ df \in Datasets
    /\ player_id \in {"p1", "p2"}
    /\ recent_n \in 0..MaxRecentN
    /\ match_ids = <<>> /\ comparison = EmptyDict
    /\ deviations = <<>> /\ phase_devs = <<>> /\ recs = <<>>
    /\ pct_b = None /\ pct_r = None /\ pct_out = None

Analyse ==
    /\ op = "recommendations" /\ ~done
    /\ \E ids \in SortedOrders(DistinctIds(PlayerRows(df, player_id))) :
          /\ match_ids' = ids
          /\ comparison' = baseline_vs_recent(df, player_id, recent_n, ids)
    /\ deviations' = detect_deviations(comparison')
    /\ phase_devs' = phase_deviations(comparison')
    /\ recs' = generate_recommendations(player_id, comparison', deviations', phase_devs')
    /\ done' = TRUE
    /\ UNCHANGED <<op, df, player_id, recent_n, pct_b, pct_r, pct_out>>
    /\ UNCHANGED extVars

Next == Analyse

Spec == Init /\ [][Next]_vars

----------------------------------------------------------------------------
(* Properties of the splitter and of the pipeline, checked under Spec.     *)

\* The distinct match ids of the rows of the player analysed.
PlayerMatchIds == DistinctIds(PlayerRows(df, player_id))
Analysed == op = "recommendations" /\ done /\ PlayerMatchIds # {}

\* C2: when the player has more than recentN distinct match ids,
\* recent_matches is exactly the recentN ids that come last in the match
\* ordering and baseline_matches all the others, so recent_matches has
\* exactly recentN elements (recentN >= 0).
C2_RecentIsLastN ==
    (Analysed /\ Cardinality(PlayerMatchIds) > recent_n) =>
        /\ comparison.recent_matches =
              {match_ids[i] : i \in (Len(match_ids) - recent_n + 1)..Len(match_ids)}
        /\ comparison.baseline_matches =
              {match_ids[i] : i \in 1..(Len(match_ids) - recent_n)}
        /\ Cardinality(comparison.recent_matches) = recent_n

\* C3: baseline_matches and recent_matches are disjoint and their union is
\* the set of distinct match ids of the player's rows.
C3_Partition ==
    Analysed =>
        /\ comparison.baseline_matches \cap comparison.recent_matches = {}
        /\ comparison.baseline_matches \cup comparison.recent_matches = PlayerMatchIds

\* Three matches, two of them of index 0, window 2: the unlisted id is the
\* baseline.
C3_Witness ==
    /\ Analysed /\ recent_n = 2
    /\ match_ids = <<"grid-1", "m1", "m2">>
    /\ comparison.baseline_matches = {"grid-1"}
    /\ comparison.recent_matches = {"m1", "m2"}

\* C4: a player with at most recentN distinct match ids gets an empty
\* baseline_matches and a recent_matches equal to the full set of ids.
C4_ShortHistoryAllRecent ==
    (Analysed /\ Cardinality(PlayerMatchIds) <= recent_n) =>
        /\ comparison.baseline_matches = {}
        /\ comparison.recent_matches = PlayerMatchIds

\* Exactly as many matches as the window holds.
C4_Witness ==
    /\ Analysed /\ recent_n = 2
    /\ PlayerMatchIds = {"m1", "m2"}
    /\ comparison.recent_matches = {"m1", "m2"}
    /\ comparison.baseline_matches = {}

\* C5: for a player with at most recentN distinct match ids (empty
\* baseline), detect_deviations and phase_deviations applied to the output of
\* baseline_vs_recent both return the empty list, whatever the recent rows.
C5_EmptyBaselineNoDeviation ==
    (Analysed /\ Cardinality(PlayerMatchIds) <= recent_n) =>
        /\ deviations = <<>>
        /\ phase_devs = <<>>

\* Two matches with different statistics, all recent: the baseline aggregate
\* is zero-filled, the recent one is not, and nothing is reported.
C5_Witness ==
    /\ Analysed /\ recent_n = 2
    /\ Cardinality(PlayerMatchIds) = 2
    /\ comparison.baseline["kills"] = Zero
    /\ comparison.recent["kills"] = FromInt(3)
    /\ comparison.baseline_by_phase = EmptyDict
    /\ DOMAIN comparison.recent_by_phase = {"early", "mid"}
    /\ deviations = <<>> /\ phase_devs = <<>>

\* The position of an id in the table m1..m5 counted from 0, and 0 for an
\* id the table does not list.
Recognized(id) == id \in {"m1", "m2", "m3", "m4", "m5"}
OrderIndex(id) ==
    CASE id = "m2" -> 1 [] id = "m3" -> 2 [] id = "m4" -> 3 [] id = "m5" -> 4
      [] OTHER -> 0
IndexOrdered ==
    \A b \in comparison.baseline_matches, r \in comparison.recent_matches :
        OrderIndex(b) <= OrderIndex(r)

\* C23 as stated: every id of baseline_matches has an index at most that of
\* every id of recent_matches, and an id the table does not list is never
\* ordered after a listed one: it is never in recent_matches while a listed
\* id is in baseline_matches.
C23_UnknownNeverAfterKnown ==
    Analysed =>
        /\ IndexOrdered
        /\ \A b \in comparison.baseline_matches, r \in comparison.recent_matches :
              ~(Recognized(b) /\ ~Recognized(r))

\* C23 amended: every id of baseline_matches has an index at most that of
\* every id of recent_matches.  An id the table does not list has index 0
\* like m1: it is never ordered after m2..m5, but it can be in recent_matches
\* while m1 is in baseline_matches.
C23_BaselineIndexAtMostRecent ==
    Analysed =>
        /\ IndexOrdered
        /\ \A b \in comparison.baseline_matches, r \in comparison.recent_matches :
              (Recognized(b) /\ ~Recognized(r)) => b = "m1"
        /\ \A i, j \in DOMAIN match_ids :
              (~Recognized(match_ids[i]) /\ OrderIndex(match_ids[j]) > 0) => i < j

\* Matches m1 and grid-1, window 1: the unlisted id is the recent match and
\* m1 the baseline.
C23_Witness ==
    /\ Analysed /\ recent_n = 1
    /\ match_ids = <<"m1", "grid-1">>
    /\ comparison.baseline_matches = {"m1"}
    /\ comparison.recent_matches = {"grid-1"}

----------------------------------------------------------------------------
(* generate_macro_review on its own, on datasets drawn from a bounded set. *)

MaxMatchRows == 3

\* What a row of one player in one phase can look like: rounds won and
\* played (none played leaves the win rate undefined), KAST, and the LoL
\* columns.  A low win rate goes with a high KAST and the other way round,
\* so that the two ways of choosing the weakest phase disagree.
MacroProfiles ==
    << [rounds_won |-> FromInt(1), rounds_played |-> FromInt(4), kast |-> Rat(4, 5),
        deaths |-> FromInt(2), damage_dealt |-> FromInt(100),
        gold_diff_at_phase |-> FromInt(500), objective_score |-> FromInt(2)],
       [rounds_won |-> FromInt(3), rounds_played |-> FromInt(4), kast |-> Rat(1, 2),
        deaths |-> FromInt(4), damage_dealt |-> FromInt(80),
        gold_diff_at_phase |-> FromInt(-500), objective_score |-> FromInt(1)],
       [rounds_won |-> Zero, rounds_played |-> Zero, kast |-> Rat(4, 5),
        deaths |-> FromInt(2), damage_dealt |-> FromInt(100),
        gold_diff_at_phase |-> FromInt(-500), objective_score |-> FromInt(1)],
       [rounds_won |-> Zero, rounds_played |-> Zero, kast |-> Rat(1, 2),
        deaths |-> FromInt(4), damage_dealt |-> FromInt(80),
        gold_diff_at_phase |-> FromInt(500), objective_score |-> FromInt(2)] >>

\* A match is played on one map (grid_ingest.py:47, 84).
MatchMap(mid) == IF mid = "m1" THEN "Ascent" ELSE "Bind"

MacroRow(pid, mid, ph, stats) ==
    [player_id |-> pid, match_id |-> mid, game_phase |-> ph, map |-> MatchMap(mid),
     rounds_won |-> stats.rounds_won, rounds_played |-> stats.rounds_played,
     kast |-> stats.kast, deaths |-> stats.deaths, damage_dealt |-> stats.damage_dealt,
     gold_diff_at_phase |-> stats.gold_diff_at_phase,
     objective_score |-> stats.objective_score]

\* The rows a dataset is made of: player p1 in every phase of match m1 with
\* every profile, player p2 in every phase of m1 with the second and third
\* profile, and one row of match m2.
RowsOf(pid, profiles) ==
    [i \in 1..(Len(PHASES) * Len(profiles)) |->
        MacroRow(pid, "m1", PHASES[((i - 1) \div Len(profiles)) + 1],
                 profiles[((i - 1) % Len(profiles)) + 1])]
MacroRowTypes ==
    RowsOf("p1", MacroProfiles) \o RowsOf("p2", SubSeq(MacroProfiles, 2, 3))
        \o << MacroRow("p1", "m2", "mid", MacroProfiles[1]) >>

\* Datasets of up to MaxMatchRows rows, listed in the order of MacroRowTypes:
\* every aggregate is a mean or a sum over a group, so the row order has no
\* effect.
MacroDatasets ==
    {[i \in DOMAIN f |-> MacroRowTypes[f[i]]] :
        f \in {g \in SeqsUpTo(DOMAIN MacroRowTypes, MaxMatchRows) :
                  \A i, j \in DOMAIN g : i < j => g[i] <= g[j]}}

\* The optional columns: none, map only, the LoL columns only, all.
ColumnSets == SUBSET {"map", "gold_diff_at_phase"}

InitMacro ==
    /\ op = "generate_macro_review" /\ done = FALSE
    /\ player_id = "" /\ recent_n = 0 /\ match_ids = <<>>
    /\ comparison = EmptyDict /\ deviations = <<>> /\ phase_devs = <<>>
    /\ recs = <<>> /\ pct_b = None /\ pct_r = None /\ pct_out = None
    /\ TrendIdle /\ ApiIdle /\ heap = <<>> /\ args = <<>>
    /\ review = EmptyReview("", "")
    /\ df \in MacroDatasets
    /\ columns \in ColumnSets
    /\ match_id \in {"m1", "m9"}
    /\ game \in {"valorant", "LOL"}

MacroReview ==
    /\ op = "generate_macro_review" /\ ~done
    /\ review' = generate_macro_review(df, columns, match_id, game)
    /\ done' = TRUE
    /\ UNCHANGED <<op, df, player_id, recent_n, match_ids, comparison, deviations,
                   phase_devs, recs, pct_b, pct_r, pct_out>>
    /\ UNCHANGED <<series, trend, match_id, game, columns, dfs, snapshot,
                   ingested, status, handler, core_calls, heap, args>>

NextMacro == MacroReview

SpecMacro == InitMacro /\ [][NextMacro]_vars

\* The rows of the requested match, and those of them with value k in col.
MatchIdx == {i \in DOMAIN df : df[i].match_id = match_id}
IdxWith(col, k) == {i \in MatchIdx : df[i][col] = k}

\* The sum over the rows S of column col times scale, an integer when every
\* value is a multiple of 1/scale.
RECURSIVE Total(_, _, _)
Total(S, col, scale) ==
    IF S = {} THEN 0
    ELSE LET i == CHOOSE x \in S : TRUE
         IN  df[i][col].n * (scale \div df[i][col].d) + Total(S \ {i}, col, scale)

Reviewed == op = "generate_macro_review" /\ done /\ MatchIdx # {}

\* C16: for a match with at least one row the first agenda item is "Phase
\* focus".  If some phase has rounds played, the item is based on the win
\* rate and names a phase with rounds played whose win rate (won / played)
\* is at most that of every other phase with rounds played; only if no
\* phase has rounds played it is based on KAST and names a phase whose mean
\* KAST is at most that of every other phase.
C16_WeakestPhase ==
    Reviewed =>
        LET phases == {df[i].game_phase : i \in MatchIdx}
            Played(ph) == Total(IdxWith("game_phase", ph), "rounds_played", 1)
            Won(ph) == Total(IdxWith("game_phase", ph), "rounds_won", 1)
            Kast(ph) == Total(IdxWith("game_phase", ph), "kast", 10)
            Count(ph) == Cardinality(IdxWith("game_phase", ph))
            defined == {ph \in phases : Played(ph) > 0}
            item == review.agenda[1]
        IN  /\ Len(review.agenda) >= 1
            /\ item.title = "Phase focus"
            /\ item.subject \in phases
            /\ item.basis = "winrate" <=> defined # {}
            /\ item.basis = "KAST" <=> defined = {}
            /\ defined # {} =>
                  /\ item.subject \in defined
                  /\ \A q \in defined :
                        Won(item.subject) * Played(q) <= Won(q) * Played(item.subject)
            /\ defined = {} =>
                  \A q \in phases :
                      Kast(item.subject) * Count(q) <= Kast(q) * Count(item.subject)

\* Early has win rate 1/4 and KAST 0.8, late 3/4 and 0.5, mid has no rounds
\* played: early is named although late has the lowest KAST.
C16_Witness ==
    /\ Reviewed
    /\ {df[i].game_phase : i \in MatchIdx} = {"early", "late", "mid"}
    /\ Total(IdxWith("game_phase", "mid"), "rounds_played", 1) = 0
    /\ Total(IdxWith("game_phase", "late"), "rounds_won", 1) = 3
    /\ review.agenda[1].basis = "winrate"
    /\ review.agenda[1].subject = "early"
    /\ review.agenda[1].pct = 25

\* The titles of the agenda, in order.
Titles == [i \in DOMAIN review.agenda |-> review.agenda[i].title]
MapHasWinrate ==
    /\ "map" \in columns
    /\ \E i \in MatchIdx : Total(IdxWith("map", df[i].map), "rounds_played", 1) > 0
BehindAtMid ==
    /\ game \in {"lol", "LOL", "LoL"}
    /\ "gold_diff_at_phase" \in columns
    /\ Total(IdxWith("game_phase", "mid"), "gold_diff_at_phase", 1) < 0

C18_NoRowsEmptyReview ==
    (op = "generate_macro_review" /\ done /\ MatchIdx = {}) =>
        /\ DOMAIN review = {"match_id", "game", "agenda", "supporting"}
        /\ review.match_id = match_id
        /\ game = "LOL" => review.game = "lol"
        /\ game = "valorant" => review.game = "valorant"
        /\ review.agenda = <<>>
        /\ DOMAIN review.supporting = {}

\* The dataset has rows, none of match m9, and the game is given in capitals.
C18_Witness ==
    /\ op = "generate_macro_review" /\ done
    /\ Len(df) = 2 /\ match_id = "m9" /\ game = "LOL"
    /\ review.game = "lol" /\ review.agenda = <<>>

----------------------------------------------------------------------------
(* app/main.py: the request handlers over the shared dictionary _dfs.      *)
(* Every handler is a coroutine (async def) without an await in its body,  *)
(* so the event loop runs it from its first line to its return before it   *)
(* starts another one: a handler is one atomic step, and an interleaving   *)
(* of requests is an order of such steps.  A row of a dataset is reduced   *)
(* to its identifying columns.                                             *)

MaxIngests == 2
MaxNewRows == 2

\* Values of the query parameter game, and of match_id in the ingest body
\* ("" stands for a missing or empty one).
ApiGames == {"valorant", "LOL", ""}
BodyMatchIds == {"", "g1", "g2"}

\* g = (game or "valorant").lower(), the key get_df reads (main.py:52).
ReadKey(g) == Lower(IF g = "" THEN "valorant" ELSE g)

\* game.lower(), the key ingest_grid_match stores under (main.py:203).
WriteKey(g) == Lower(g)

ApiRow(mid, pid, ph, map) ==
    [match_id |-> mid, player_id |-> pid, game_phase |-> ph, map |-> map]

\* load_match_stats(game=g): the rows of the CSV file of the game.
load_match_stats(g) ==
    IF Lower(g) = "lol"
    THEN << ApiRow("m1", "p3", "early", "") >>
    ELSE << ApiRow("m1", "p1", "early", ""), ApiRow("m1", "p2", "early", "") >>

\* _dfs after the call get_df(g), and the frame the call returns.
DfsAfterGet(d, g) ==
    IF ReadKey(g) \in DOMAIN d THEN d
    ELSE (ReadKey(g) :> load_match_stats(ReadKey(g))) @@ d
get_df(d, g) == DfsAfterGet(d, g)[ReadKey(g)]

GRID_PLAYERS == <<"p1", "p2", "p7", "p8">>

\* grid_match_to_df: one row per player of the fetched match; the service
\* answers with the match (found) or with nothing usable.
grid_match_to_df(g, mid, found) ==
    IF found
    THEN [i \in 1..MaxNewRows |->
            ApiRow(mid, GRID_PLAYERS[i], "early",
                   IF Lower(g) = "lol" THEN "SummonersRift" ELSE "Unknown")]
    ELSE <<>>

\* A faulty variant of Concat: the last row of the new frame is not there yet.
Concat_without_last_row(base_df, df_new) ==
    base_df \o SubSeq(df_new, 1, Len(df_new) - 1)

\* pd.concat([base_df, df_new], ignore_index=True)
Concat(base_df, df_new) == base_df \o df_new

InitApi ==
    /\ op = "serve" /\ done = FALSE
    /\ PipelineIdle /\ TrendIdle /\ MacroIdle /\ heap = <<>> /\ args = <<>>
    /\ dfs = EmptyDict
    /\ snapshot = <<>> /\ ingested = <<>> /\ status = 0
    /\ handler = "" /\ core_calls = {}

\* The part every read handler starts with: df = get_df(game).
ReadDf(g) ==
    /\ dfs' = DfsAfterGet(dfs, g)
    /\ snapshot' = get_df(dfs, g)
    /\ game' = g

ApiUnchanged ==
    UNCHANGED <<op, done, df, recent_n, match_ids, comparison, deviations,
                phase_devs, recs, pct_b, pct_r, pct_out, series, trend, columns,
                review, heap, args>>

\* The core functions get_analysis (97-101) and get_recommendations
\* (136-139) call for a player that has rows.
ANALYSIS_CORE ==
    {"baseline_vs_recent", "phase_stats", "rolling_averages", "detect_deviations",
     "phase_deviations"}
RECOMMENDATIONS_CORE ==
    {"baseline_vs_recent", "detect_deviations", "phase_deviations",
     "generate_recommendations"}

\* A faulty variant of Found: every id is taken to be in the dataset.
Found_always(frame, col, id) == TRUE

\* id in frame[col].values
Found(frame, col, id) == \E i \in DOMAIN frame : frame[i][col] = id

\* GET /players.  player_id and match_id are the arguments of the last
\* request, "" when it has none.
ListPlayers ==
    /\ \E g \in ApiGames : ReadDf(g)
    /\ handler' = "list_players"
    /\ status' = 200 /\ core_calls' = {}
    /\ player_id' = "" /\ match_id' = ""
    /\ UNCHANGED ingested
    /\ ApiUnchanged

\* GET /matches
ListMatches ==
    /\ \E g \in ApiGames : ReadDf(g)
    /\ handler' = "list_matches"
    /\ status' = 200 /\ core_calls' = {}
    /\ player_id' = "" /\ match_id' = ""
    /\ UNCHANGED ingested
    /\ ApiUnchanged

\* GET /analysis/{player_id}: 404 for a player without rows.
GetAnalysis ==
    /\ \E g \in ApiGames : ReadDf(g)
    /\ handler' = "get_analysis"
    /\ \E pid \in {"p1", "p3", "p9"} : player_id' = pid
    /\ match_id' = ""
    /\ IF Found(snapshot', "player_id", player_id')
       THEN status' = 200 /\ core_calls' = ANALYSIS_CORE
       ELSE status' = 404 /\ core_calls' = {}
    /\ UNCHANGED ingested
    /\ ApiUnchanged

\* GET /recommendations/{player_id}: 404 for a player without rows.
GetRecommendations ==
    /\ \E g \in ApiGames : ReadDf(g)
    /\ handler' = "get_recommendations"
    /\ \E pid \in {"p1", "p3", "p9"} : player_id' = pid
    /\ match_id' = ""
    /\ IF Found(snapshot', "player_id", player_id')
       THEN status' = 200 /\ core_calls' = RECOMMENDATIONS_CORE
       ELSE status' = 404 /\ core_calls' = {}
    /\ UNCHANGED ingested
    /\ ApiUnchanged

\* GET /macro_review/{match_id}: 404 for a match without rows.
MacroReviewRequest ==
    /\ \E g \in ApiGames : ReadDf(g)
    /\ handler' = "macro_review"
    /\ \E mid \in {"m1", "g1", "m9"} : match_id' = mid
    /\ player_id' = ""
    /\ IF Found(snapshot', "match_id", match_id')
       THEN status' = 200 /\ core_calls' = {"generate_macro_review"}
       ELSE status' = 404 /\ core_calls' = {}
    /\ UNCHANGED ingested
    /\ ApiUnchanged

\* POST /chat/query: an empty question is answered without reading the
\* dataset; a question about a match runs the macro review if the match has
\* rows (chat/query.py:107-113); the other questions compute their answer
\* from the dataset without the core functions.
ChatQuery ==
    /\ handler' = "chat_query"
    /\ player_id' = ""
    /\ \E g \in ApiGames :
          \/ /\ game' = g /\ UNCHANGED <<dfs, snapshot>>
             /\ match_id' = "" /\ core_calls' = {}
          \/ /\ ReadDf(g)
             /\ match_id' = "" /\ core_calls' = {}
          \/ /\ ReadDf(g)
             /\ \E mid \in {"m1", "m9"} : match_id' = mid
             /\ core_calls' = IF Found(snapshot', "match_id", match_id')
                              THEN {"generate_macro_review"} ELSE {}
    /\ status' = 200
    /\ UNCHANGED ingested
    /\ ApiUnchanged

\* A faulty variant of IngestGridMatch: the base frame is fetched with get_df
\* before the new frame is tested for rows.
IngestGridMatch_get_df_first ==
    /\ handler' = "ingest_grid_match"
    /\ \E g \in ApiGames, mid \in BodyMatchIds, found \in BOOLEAN :
          /\ game' = g
          /\ match_id' = mid
          /\ IF mid = ""
             THEN status' = 400 /\ UNCHANGED <<dfs, ingested>>
             ELSE IF grid_match_to_df(g, mid, found) = <<>>
             THEN status' = 502 /\ dfs' = DfsAfterGet(dfs, g) /\ UNCHANGED ingested
             ELSE /\ Len(ingested) < MaxIngests
                  /\ dfs' = (WriteKey(g) :> Concat(get_df(dfs, g),
                                                   grid_match_to_df(g, mid, found)))
                                @@ DfsAfterGet(dfs, g)
                  /\ ingested' = Append(ingested,
                                        [game |-> g, match_id |-> mid,
                                         rows |-> grid_match_to_df(g, mid, found)])
                  /\ status' = 200
    /\ player_id' = "" /\ core_calls' = {}
    /\ UNCHANGED snapshot
    /\ ApiUnchanged

\* POST /ingest/grid_match: 400 without match_id, 502 for a match without
\* rows, otherwise the combined frame is stored under game.lower().
IngestGridMatch ==
    /\ handler' = "ingest_grid_match"
    /\ \E g \in ApiGames, mid \in BodyMatchIds, found \in BOOLEAN :
          /\ game' = g
          /\ match_id' = mid
          /\ IF mid = ""
             THEN status' = 400 /\ UNCHANGED <<dfs, ingested>>
             ELSE IF grid_match_to_df(g, mid, found) = <<>>
             THEN status' = 502 /\ UNCHANGED <<dfs, ingested>>
             ELSE /\ Len(ingested) < MaxIngests
                  /\ dfs' = (WriteKey(g) :> Concat(get_df(dfs, g),
                                                   grid_match_to_df(g, mid, found)))
                                @@ DfsAfterGet(dfs, g)
                  /\ ingested' = Append(ingested,
                                        [game |-> g, match_id |-> mid,
                                         rows |-> grid_match_to_df(g, mid, found)])
                  /\ status' = 200
    /\ player_id' = "" /\ core_calls' = {}
    /\ UNCHANGED snapshot
    /\ ApiUnchanged

NextApi ==
    \/ ListPlayers
    \/ ListMatches
    \/ GetAnalysis
    \/ GetRecommendations
    \/ MacroReviewRequest
    \/ ChatQuery
    \/ IngestGridMatch

SpecApi == InitApi /\ [][NextApi]_vars

\* The rows of the snapshot that are rows of the ingested match e.
SeenOf(e) == SelectSeq(snapshot, LAMBDA row : row \in Range(e.rows))

\* C19: whatever the order of ingest and read requests, the dataset a
\* reader got from get_df holds, of every match ingested so far, either no
\* row or all of its rows (as many of each).
C19_AllRowsOrNone ==
    \A i \in DOMAIN ingested :
        LET e == ingested[i]
        IN  \/ SeenOf(e) = <<>>
            \/ /\ Range(SeenOf(e)) = Range(e.rows)
               /\ \A r1, r2 \in Range(e.rows) :
                     Cardinality({j \in DOMAIN snapshot : snapshot[j] = r1})
                        = Cardinality({j \in DOMAIN snapshot : snapshot[j] = r2})

\* A reader took its snapshot between two ingests of the same game: it holds
\* all rows of the first match and none of the second.
C19_Witness ==
    /\ Len(ingested) = 2
    /\ ingested[1].game = "valorant" /\ ingested[2].game = "valorant"
    /\ ingested[1].match_id = "g1" /\ ingested[2].match_id = "g2"
    /\ Len(SeenOf(ingested[1])) = MaxNewRows
    /\ SeenOf(ingested[2]) = <<>>
    /\ Len(dfs["valorant"]) = Len(snapshot) + MaxNewRows

\* The game a request parameter names: valorant is the default.
GameOf(g) == IF g \in {"lol", "LOL"} THEN "lol" ELSE "valorant"

\* The rows of the matches ingested for game k so far, in order.
RECURSIVE IngestedRows(_, _)
IngestedRows(k, i) ==
    IF i > Len(ingested) THEN <<>>
    ELSE (IF GameOf(ingested[i].game) = k THEN ingested[i].rows ELSE <<>>)
            \o IngestedRows(k, i + 1)

\* C20: after any sequence of successful ingests, the in-memory dataset of a
\* game that had an ingest is the rows loaded at first followed by the rows
\* of every match ingested for that game, in order.
C20_AppendOnly ==
    \A k \in {"valorant", "lol"} :
        IngestedRows(k, 1) # <<>> =>
            /\ k \in DOMAIN dfs
            /\ dfs[k] = load_match_stats(k) \o IngestedRows(k, 1)

\* C21: an analysis or recommendations request for a player without rows in
\* the dataset it read, and a macro-review request for a match without rows
\* in it, is answered 404 and has invoked no core function.
C21_NotFoundSkipsCore ==
    /\ (handler \in {"get_analysis", "get_recommendations"}
            /\ \A i \in DOMAIN snapshot : snapshot[i].player_id # player_id)
          => (status = 404 /\ core_calls = {})
    /\ (handler = "macro_review"
            /\ \A i \in DOMAIN snapshot : snapshot[i].match_id # match_id)
          => (status = 404 /\ core_calls = {})
    /\ (handler \in {"get_analysis", "get_recommendations", "macro_review"}
            /\ status = 404)
          => core_calls = {}

\* Recommendations are asked for p3, who plays lol only, in the valorant
\* dataset after a match was ingested into it.
C21_Witness ==
    /\ handler = "get_recommendations" /\ player_id = "p3" /\ game = "valorant"
    /\ Len(ingested) = 1 /\ ingested[1].game = "valorant"
    /\ Len(snapshot) = 2 + MaxNewRows
    /\ status = 404 /\ core_calls = {}

\* The handlers that return what they computed from df = get_df(game).
ReadHandlers ==
    {"list_players", "list_matches", "get_analysis", "get_recommendations",
     "macro_review"}

\* C22: a read request with game parameter g gets from get_df a dataset
\* holding the rows of every match that an earlier successful ingest request
\* with the same parameter g stored.
C22_ReadSeesIngest ==
    handler \in ReadHandlers =>
        \A i \in DOMAIN ingested :
            ingested[i].game = game => Range(ingested[i].rows) \subseteq Range(snapshot)

\* C24: an ingest request that fails, with 400 for a body without match_id
\* or with 502 for a match without rows, leaves _dfs as it was: the same
\* keys with the same frames.
C24_FailedIngestKeepsDfs ==
    [][(handler' = "ingest_grid_match" /\ status' \in {400, 502}) => dfs' = dfs]_vars

\* An ingest for lol failed with 502 after one for valorant succeeded: the
\* lol dataset was not even loaded.
C24_Witness ==
    /\ handler = "ingest_grid_match" /\ status = 502 /\ game = "LOL"
    /\ Len(ingested) = 1
    /\ DOMAIN dfs = {"valorant"}
    /\ Len(dfs["valorant"]) = 2 + MaxNewRows

----------------------------------------------------------------------------
(* The core functions on objects.  Every frame, dictionary and list is an  *)
(* object of heap; a function is called with references to its inputs, and *)
(* each of its statements either allocates a new object or writes into the *)
(* object a name is bound to.                                              *)

\* The columns of a loaded dataset without optional columns.
DF_COLUMNS == <<"player_id", "match_id", "game_phase">> \o NUMERIC_COLS

Frame(cols, rows) == [columns |-> cols, rows |-> rows]

\* A new object: the heap holding it and the reference to it.
Alloc(h, obj) == [heap |-> Append(h, obj), ref |-> Len(h) + 1]

\* A faulty variant of FilterCopy: the name is bound to the frame passed in.
FilterCopy_alias(h, src, col, val) == [heap |-> h, ref |-> src]

\* df[df[col] == val].copy(): a new frame with the rows selected.
FilterCopy(h, src, col, val) ==
    Alloc(h, Frame(h[src].columns, Group(h[src].rows, col, val)))

\* frame[frame[col].isin(S)]: boolean indexing returns a new frame.
IsIn(h, src, col, S) ==
    Alloc(h, Frame(h[src].columns, SelectSeq(h[src].rows, LAMBDA row : row[col] \in S)))

\* frame[col] = vals: the column is written into the object itself, vals[i]
\* being the value for row i.
SetColumn(h, ref, col, vals) ==
    [h EXCEPT ![ref] =
        Frame(IF col \in Range(h[ref].columns) THEN h[ref].columns
              ELSE Append(h[ref].columns, col),
              [i \in DOMAIN h[ref].rows |-> (col :> vals[i]) @@ h[ref].rows[i]])]

\* The row orders sort_values(col) can leave: nondecreasing in col, rows of
\* equal value in any order (quicksort, not stable).
SortedRowOrders(rows, col) ==
    {p \in [DOMAIN rows -> DOMAIN rows] :
        /\ \A i, j \in DOMAIN p : p[i] = p[j] => i = j
        /\ \A i, j \in DOMAIN p : i < j => rows[p[i]][col] <= rows[p[j]][col]}

\* frame.sort_values(col) without inplace: a new frame, p being the order chosen.
SortValues(h, src, p) ==
    Alloc(h, Frame(h[src].columns, [i \in DOMAIN p |-> h[src].rows[p[i]]]))

\* frame.groupby(col).agg(...): a new frame with one row per key, aggs[i]
\* being the aggregates of the group of keys[i].
GroupByAgg(h, col, keys, cols, aggs) ==
    Alloc(h, Frame(<<col>> \o cols,
                   [i \in DOMAIN keys |->
                       (col :> keys[i]) @@ [c \in Range(cols) |-> aggs[i][c]]]))

\* player["match_id"].unique(): the ids in order of first appearance.
Unique(rows) ==
    LET firsts == SelectSeq([i \in DOMAIN rows |-> i],
                            LAMBDA i : \A j \in 1..(i - 1) :
                                          rows[j].match_id # rows[i].match_id)
    IN  [k \in DOMAIN firsts |-> rows[firsts[k]].match_id]

\* The default metrics of rolling_averages.
ROLLING_METRICS == <<"kills", "deaths", "assists", "damage_dealt", "kast">>

\* for m in metrics: match_agg[f"{m}_rolling"] = match_agg[m].expanding().mean()
RECURSIVE AddRolling(_, _, _)
AddRolling(h, ref, k) ==
    IF k > Len(ROLLING_METRICS) THEN h
    ELSE AddRolling(SetColumn(h, ref, ROLLING_METRICS[k] \o "_rolling",
                              [i \in DOMAIN h[ref].rows |->
                                  Mean(SubSeq(h[ref].rows, 1, i), ROLLING_METRICS[k])]),
                    ref, k + 1)

InitFrame ==
    /\ done = FALSE
    /\ TrendIdle /\ ApiIdle
    /\ df = <<>> /\ match_ids = <<>> /\ comparison = EmptyDict
    /\ deviations = <<>> /\ phase_devs = <<>> /\ recs = <<>>
    /\ pct_b = None /\ pct_r = None /\ pct_out = None
    /\ columns = {} /\ review = EmptyReview("", "")
    /\ \/ /\ op \in {"phase_stats", "baseline_vs_recent", "rolling_averages"}
          /\ heap \in {<<Frame(DF_COLUMNS, d)>> : d \in Datasets}
          /\ args = <<1>>
          /\ player_id \in {"p1", "p2"}
          /\ recent_n = (IF op = "baseline_vs_recent" THEN MaxRecentN ELSE 0)
          /\ match_id = "" /\ game = ""
       \/ /\ op = "generate_macro_review"
          /\ heap \in {<<Frame(DF_COLUMNS, d)>> : d \in Datasets}
          /\ args = <<1>>
          /\ match_id \in {"m1", "m9"} /\ game \in {"valorant", "LOL"}
          /\ player_id = "" /\ recent_n = 0
       \/ /\ op = "detect_deviations"
          /\ heap \in {<<c>> : c \in OverallComparisons}
          /\ args = <<1>>
          /\ player_id = "" /\ recent_n = 0 /\ match_id = "" /\ game = ""
       \/ /\ op = "phase_deviations"
          /\ heap \in {<<c>> : c \in PhaseComparisons}
          /\ args = <<1>>
          /\ player_id = "" /\ recent_n = 0 /\ match_id = "" /\ game = ""
       \/ /\ op = "generate_recommendations"
          /\ heap \in {<<EmptyDict, d, pd>> : d \in SeqsUpTo(DevEntries, MaxDevs),
                                              pd \in SeqsUpTo(PhaseEntries, MaxPhaseDevs)}
          /\ args = <<1, 2, 3>>
          /\ player_id = "p1"
          /\ recent_n = 0 /\ match_id = "" /\ game = ""

FrameUnchanged ==
    UNCHANGED <<op, df, player_id, recent_n, match_ids, comparison, deviations,
                phase_devs, recs, pct_b, pct_r, pct_out, series, trend, match_id,
                game, columns, review, dfs, snapshot, ingested, status, handler,
                core_calls, args>>

\* phase_stats(df, player_id)
CallPhaseStats ==
    /\ op = "phase_stats" /\ ~done
    /\ LET player == FilterCopy(heap, args[1], "player_id", player_id)
           rows == player.heap[player.ref].rows
       IN  heap' = IF rows = <<>>
                   THEN Alloc(player.heap, Frame(<<>>, <<>>)).heap
                   ELSE LET keys == GroupKeys(rows, "game_phase")
                            cols == <<"kills", "deaths", "assists", "damage_dealt", "kast",
                                      "rounds_played", "rounds_won">>
                        IN  GroupByAgg(player.heap, "game_phase", keys, cols,
                                [i \in DOMAIN keys |->
                                    [c \in Range(cols) |->
                                        IF c \in {"rounds_played", "rounds_won"}
                                        THEN ColSum(Group(rows, "game_phase", keys[i]), c, 1)
                                        ELSE Mean(Group(rows, "game_phase", keys[i]), c)]]).heap
    /\ done' = TRUE
    /\ FrameUnchanged

\* baseline_vs_recent(df, player_id, recent_n_matches)
CallBaselineVsRecent ==
    /\ op = "baseline_vs_recent" /\ ~done
    /\ LET player == FilterCopy(heap, args[1], "player_id", player_id)
       IN  IF player.heap[player.ref].rows = <<>>
           THEN heap' = Alloc(player.heap, EmptyDict).heap
           ELSE LET rows == player.heap[player.ref].rows
                    h1 == SetColumn(player.heap, player.ref, "_match_idx",
                                    [i \in DOMAIN rows |-> match_index(rows[i].match_id)])
                IN  \E p \in SortedRowOrders(h1[player.ref].rows, "_match_idx") :
                       LET sorted == SortValues(h1, player.ref, p)
                           ids == Unique(sorted.heap[sorted.ref].rows)
                           baseline_df == IsIn(sorted.heap, sorted.ref, "match_id",
                                               BaselineIds(ids, recent_n))
                           recent_df == IsIn(baseline_df.heap, sorted.ref, "match_id",
                                             RecentIds(ids, recent_n))
                       IN  heap' = Alloc(recent_df.heap,
                                         baseline_vs_recent(heap[args[1]].rows, player_id,
                                                            recent_n, ids)).heap
    /\ done' = TRUE
    /\ FrameUnchanged

\* rolling_averages(df, player_id)
CallRollingAverages ==
    /\ op = "rolling_averages" /\ ~done
    /\ LET player == FilterCopy(heap, args[1], "player_id", player_id)
       IN  IF player.heap[player.ref].rows = <<>>
           THEN heap' = Alloc(player.heap, Frame(<<>>, <<>>)).heap
           ELSE LET rows == player.heap[player.ref].rows
                    h1 == SetColumn(player.heap, player.ref, "_match_idx",
                                    [i \in DOMAIN rows |-> match_index(rows[i].match_id)])
                    keys == SelectSeq(<<"grid-1", "m1", "m2">>,
                                      LAMBDA k : \E i \in DOMAIN rows : rows[i].match_id = k)
                    match_agg == GroupByAgg(h1, "match_id", keys, ROLLING_METRICS,
                                     [i \in DOMAIN keys |->
                                         [c \in Range(ROLLING_METRICS) |->
                                             Mean(Group(rows, "match_id", keys[i]), c)]])
                    h2 == SetColumn(match_agg.heap, match_agg.ref, "_idx",
                                    [i \in DOMAIN keys |-> match_index(keys[i])])
                IN  \E p \in SortedRowOrders(h2[match_agg.ref].rows, "_idx") :
                       LET sorted == SortValues(h2, match_agg.ref, p)
                       IN  heap' = AddRolling(sorted.heap, sorted.ref, 1)
    /\ done' = TRUE
    /\ FrameUnchanged

\* generate_macro_review(df, match_id, game)
CallMacroReview ==
    /\ op = "generate_macro_review" /\ ~done
    /\ LET mdf == FilterCopy(heap, args[1], "match_id", match_id)
           rows == mdf.heap[mdf.ref].rows
           cols == Range(mdf.heap[mdf.ref].columns)
       IN  IF rows = <<>>
           THEN heap' = Alloc(mdf.heap, EmptyReview(match_id, Lower(game))).heap
           ELSE LET phases == GroupKeys(rows, "game_phase")
                    phase_group == GroupByAgg(mdf.heap, "game_phase", phases,
                                       <<"damage_dealt", "kast", "deaths", "rounds_won",
                                         "rounds_played">>,
                                       [i \in DOMAIN phases |-> PhaseGroup(rows)[phases[i]]])
                    h1 == SetColumn(phase_group.heap, phase_group.ref, "winrate",
                                    [i \in DOMAIN phases |-> PhaseGroup(rows)[phases[i]].winrate])
                    maps == GroupKeys(rows, "map")
                    map_group == GroupByAgg(h1, "map", maps, <<"rounds_won", "rounds_played">>,
                                     [i \in DOMAIN maps |->
                                         [c \in {"rounds_won", "rounds_played"} |->
                                             ColSum(Group(rows, "map", maps[i]), c, 1)]])
                    h2 == IF "map" \in cols
                          THEN SetColumn(map_group.heap, map_group.ref, "winrate",
                                   [i \in DOMAIN maps |->
                                       Winrate(ColSum(Group(rows, "map", maps[i]), "rounds_won", 1),
                                               ColSum(Group(rows, "map", maps[i]),
                                                      "rounds_played", 1))])
                          ELSE h1
                    players == GroupKeys(rows, "player_id")
                    player_group == GroupByAgg(h2, "player_id", players,
                                        <<"deaths", "kast", "damage">>,
                                        [i \in DOMAIN players |-> PlayerGroup(rows)[players[i]]])
                    obj == GroupByAgg(player_group.heap, "game_phase", phases,
                               <<"gold_diff", "objective_score">>,
                               [i \in DOMAIN phases |->
                                   [gold_diff |->
                                        Mean(Group(rows, "game_phase", phases[i]),
                                             "gold_diff_at_phase"),
                                    objective_score |->
                                        Mean(Group(rows, "game_phase", phases[i]),
                                             "objective_score")]])
                    h3 == IF Lower(game) = "lol" /\ "gold_diff_at_phase" \in cols
                          THEN obj.heap ELSE player_group.heap
                IN  heap' = Alloc(h3, generate_macro_review(
                                          heap[args[1]].rows,
                                          cols \cap {"map", "gold_diff_at_phase"},
                                          match_id, game)).heap
    /\ done' = TRUE
    /\ FrameUnchanged

\* detect_deviations(baseline_vs_recent): the list returned is a new object.
CallDetectDeviations ==
    /\ op = "detect_deviations" /\ ~done
    /\ heap' = Alloc(heap, detect_deviations(heap[args[1]])).heap
    /\ done' = TRUE
    /\ FrameUnchanged

\* phase_deviations(baseline_vs_recent)
CallPhaseDeviations ==
    /\ op = "phase_deviations" /\ ~done
    /\ heap' = Alloc(heap, phase_deviations(heap[args[1]])).heap
    /\ done' = TRUE
    /\ FrameUnchanged

\* generate_recommendations(player_id, baseline_vs_recent, deviations, phase_deviations)
CallGenerateRecommendations ==
    /\ op = "generate_recommendations" /\ ~done
    /\ heap' = Alloc(heap, generate_recommendations(player_id, heap[args[1]],
                                                    heap[args[2]], heap[args[3]])).heap
    /\ done' = TRUE
    /\ FrameUnchanged

NextFrame ==
    \/ CallPhaseStats
    \/ CallBaselineVsRecent
    \/ CallRollingAverages
    \/ CallMacroReview
    \/ CallDetectDeviations
    \/ CallPhaseDeviations
    \/ CallGenerateRecommendations

SpecFrame == InitFrame /\ [][NextFrame]_vars

\* C25: a core function leaves every object it was called with as it was:
\* the dataset keeps its rows and its columns, and the comparison and the
\* deviation lists keep their entries.
C25_InputsNotMutated ==
    [][\A i \in DOMAIN args : heap'[args[i]] = heap[args[i]]]_vars

\* baseline_vs_recent has run for a player with rows: the column _match_idx
\* is in the copy and not in the dataset.
C25_Witness ==
    /\ done /\ op = "baseline_vs_recent"
    /\ Len(heap) > 2
    /\ heap[args[1]].rows # <<>>
    /\ "_match_idx" \in Range(heap[2].columns)
    /\ "_match_idx" \notin Range(heap[args[1]].columns)

============================================================================
